---- MODULE Spec2Model ----
(***************************************************************************)
(* basket-cost: the enrichment scheduler (internal/enricher), the catalog  *)
(* crawl it drives, and the ticket upload path (handlers.TicketHandler,    *)
(* ticket.Importer, store.SQLiteStore).                                    *)
(*                                                                         *)
(* Two specifications share the module's variables:                        *)
(*   Spec / FairSpec  the Enricher: Start's worker goroutine, Schedule,    *)
(*                    Run, productIndex and BuildProductIndex;             *)
(*   UploadSpec       concurrent TicketHandler requests over one store.    *)
(* Each specification leaves the other's variables at their initial value. *)
(*                                                                         *)
(* Goroutines blocked in a select are modelled as the Go runtime runs      *)
(* them: a select that finds several cases ready picks any of them; one    *)
(* that finds none parks, and the first event that makes a case ready      *)
(* (close of ctx.Done, a send, a tick) decides the case it resumes with.   *)
(***************************************************************************)
EXTENDS Integers, Sequences, FiniteSets, TLC

\* ---------------------------------------------------------------- bounds
MaxDirect   == 1    \* goroutines that may call Run directly, besides the worker
MaxCats     == 1    \* published subcategories the category tree may list
NumProducts == 1    \* product rows in the store
MaxTime     == 24   \* the clock stops advancing here (hours)
NumUploads  == 2    \* POST /api/tickets requests
NumFiles    == 2    \* distinct filenames they may carry
NumNames    == 2    \* distinct product names a ticket may list
MaxLines    == 2    \* lines of a parsed ticket
MaxCrawlCats == 3   \* published subcategories of the timed crawl
MaxClock    == 8    \* the timed crawl's clock stops here (seconds)
MaxItems    == 2    \* items in the body of a receipt given to Parse
MaxQty      == 2    \* the largest quantity token of an item
MaxAfter    == 2    \* lines of a receipt after its TOTAL line
MaxHeaderLines == 3 \* lines of a text given to Parse for its header fields
MaxKeywords == 3    \* keywords of a product name or of an index entry
MaxIndex    == 2    \* entries of the index given to bestMatch
MaxCalls    == 3    \* UpsertPriceRecordBatch calls made on the store
MaxBatch    == 2    \* entries of one UpsertPriceRecordBatch call
MaxTokens   == 3    \* tokens of a name given to translateCatalan
MaxFed      == 6    \* lines fed to parseMultiLineBody's loop
NumRuns     == 2    \* calls of Run that may overlap on one store
MaxIxCalls  == 2    \* calls of productIndex
MaxIxCats   == 2    \* published subcategories of the catalogue
MaxProducts == 2    \* products of one subcategory

\* ------------------------------------------------------ program constants
PendingCap  == 1    \* make(chan struct{}, 1)
indexTTL    == 24   \* 24 * time.Hour, in hours
subcategoryDelay == 2   \* 2 * time.Second, in seconds

Passes   == 1..(MaxDirect + 1)
Products == 1..NumProducts
Uploads  == 1..NumUploads
Files    == 1..NumFiles
Names    == 1..NumNames

VARIABLES
    pending,         \* e.pending: number of signals in the channel's buffer
    worker,          \* the goroutine Start launches: where it is in its loop
    cancelled,       \* ctx.Done() is closed
    pass,            \* the executions of Run: one record per slot
    mu,              \* e.mu: 0 when free, else the pass holding it
    cachedIndex,     \* e.cachedIndex
    indexFetchedAt,  \* e.indexFetchedAt
    now,             \* time.Now(), in hours
    tickReady,       \* ticker.C holds a tick (buffer of one)
    image,           \* products.image_url: 0 is NULL/empty, else the thumbnail
    \* history variables: they record what happened, no action reads them
    owed,            \* a Schedule call has returned and no pass has begun since
    workerLastErr,   \* the worker's most recent Run returned an error
    lastBuildAt,     \* when BuildProductIndex was last invoked, -1 if never
    lastBuildErr,    \* the last BuildProductIndex to return returned an error
    \* the upload path
    req,             \* the TicketHandler requests: one record per request
    productRows,     \* table products: name -> 0 (no row) or the request that made it
    priceRecords,    \* table price_records: <<request, line, name>> rows
    processedFiles,  \* table processed_files: the filenames
    conn,            \* the one database connection: 0 free, else the request
                     \* whose transaction holds it
    tx,              \* the rows written by the open transaction, not committed
    \* one call of BuildProductIndex against a clock
    crawl,           \* its position, locals, ticker and context: a record
    \* one call of MercadonaParser.Parse
    parse,           \* the text it was given and what it returned
    \* one call of bestMatch
    match,           \* its arguments and what it returned
    \* a sequence of UpsertPriceRecordBatch calls on one store
    db,              \* tables products and price_records, and the calls made
    \* translateCatalan applied twice
    translate,       \* the name given, the translation, and its translation
    \* parseMultiLineBody fed one line at a time
    multi,           \* its locals, the lines fed, and the last one
    \* passes of Enricher.Run over a store of named products
    run,             \* the products' images and each pass's position and locals
    \* productIndex and BuildProductIndex, product by product
    ix               \* the cache, and the position and locals of the call in progress

uploadVars == <<req, productRows, priceRecords, processedFiles, conn, tx>>

vars == <<pending, worker, cancelled, pass, mu, cachedIndex, indexFetchedAt,
          now, tickReady, image, owed, workerLastErr, lastBuildAt,
          lastBuildErr, req, productRows, priceRecords, processedFiles, conn,
          tx, crawl, parse, match, db, translate, multi, run, ix>>

\* The variables of the specifications of a single call.
unitVars == <<crawl, parse, match, db, translate, multi, run, ix>>

FreePass == [owner |-> "free", pc |-> "idle", waited |-> FALSE,
             ids |-> <<>>, index |-> <<>>, results |-> <<>>]

BuildPcs == {"cats", "sel", "park", "wdone", "fetch"}

InBuild(p) == pass[p].pc \in BuildPcs

RECURSIVE SeqOfSet(_)
SeqOfSet(S) ==
    IF S = {} THEN <<>>
    ELSE LET m == CHOOSE x \in S : \A y \in S : x <= y
         IN  <<m>> \o SeqOfSet(S \ {m})

Range(s) == {s[i] : i \in 1..Len(s)}

\* The worker's pass takes the lowest free slot, a direct caller's the highest.
LowestFree == CHOOSE p \in Passes :
                 /\ pass[p].owner = "free"
                 /\ \A q \in Passes : pass[q].owner = "free" => p <= q

HighestFree == CHOOSE p \in Passes :
                 /\ pass[p].owner = "free"
                 /\ \A q \in Passes : pass[q].owner = "free" => p >= q

NewReq == [pc |-> "new", file |-> 0, lines |-> <<>>, next |-> 1,
           status |-> 0, result |-> -1, failed |-> "none", prior |-> FALSE,
           extractCalls |-> 0, storeCalls |-> 0, schedCalls |-> 0]

NoTx == [products |-> {}, records |-> {}]

\* BuildProductIndex called at time 0 with a live context: no ticker yet.
NewCrawl == [pc |-> "tree", ids |-> <<>>, index |-> <<>>, err |-> "none",
             clock |-> 0, nextTick |-> -1, tick |-> FALSE, cancelled |-> FALSE,
             listed |-> 0, okIds |-> {}, treeFailed |-> FALSE,
             starts |-> 0, lastStart |-> -1, minGap |-> -1, viaTick |-> TRUE]

\* Parse not called yet.
NoParse == [called |-> FALSE, layout |-> "none", items |-> <<>>,
            text |-> <<>>, out |-> <<>>]

\* bestMatch not called yet.
NoMatch == [called |-> FALSE, localKW |-> <<>>, index |-> <<>>,
            url |-> "", ok |-> FALSE]

\* A new Enricher: nothing cached, productIndex not called yet.
NewIx == [pc |-> "idle", cached |-> <<>>, fetchedAt |-> 0, now |-> 0,
          calls |-> 0, ids |-> <<>>, index |-> <<>>, cancelled |-> FALSE,
          built |-> [index |-> <<>>, err |-> "none"], ret |-> "none",
          got |-> <<>>, image |-> "", runErr |-> "none",
          sawNoThumbnail |-> FALSE, sawNoKeywords |-> FALSE]

\* No call of Run made yet, the store's products not yet chosen.
NewRun == [started |-> FALSE, img |-> <<>>, pass |-> <<>>]

\* parseMultiLineBody about to read its first line.
NewMulti == [st |-> [state |-> "sIdle", pendingName |-> "", pendingQty |-> 0,
                    lines |-> <<>>, done |-> FALSE],
             fed |-> 0, last |-> [k |-> "none"]]

\* translateCatalan not called yet.
NoTranslate == [called |-> FALSE, x |-> <<>>, once |-> <<>>, twice |-> <<>>]

\* The store after migrate, and no UpsertPriceRecordBatch call made yet.
NewStore == [products |-> <<>>, price_records |-> <<>>, calls |-> 0,
             entered |-> <<>>, err |-> "none"]

Init ==
    /\ crawl = NewCrawl
    /\ parse = NoParse
    /\ match = NoMatch
    /\ db = NewStore
    /\ translate = NoTranslate
    /\ multi = NewMulti
    /\ run = NewRun
    /\ ix = NewIx
    /\ req = [u \in Uploads |-> NewReq]
    /\ productRows = [n \in Names |-> 0]
    /\ priceRecords = {}
    /\ processedFiles = {}
    /\ conn = 0
    /\ tx = NoTx
    /\ pending = 0
    /\ worker = "notStarted"
    /\ cancelled = FALSE
    /\ pass = [p \in Passes |-> FreePass]
    /\ mu = 0
    /\ cachedIndex = <<>>
    /\ indexFetchedAt = 0
    /\ now = 0
    /\ tickReady = FALSE
    /\ image = [p \in Products |-> 0]
    /\ owed = FALSE
    /\ workerLastErr = FALSE
    /\ lastBuildAt = -1
    /\ lastBuildErr = FALSE

\* ------------------------------------------------------------ the channel
\* Schedule's select: the send succeeds when the buffer has room, else the
\* default case runs and nothing changes.
ScheduleSendAlways(n) == n + 1

ScheduleSendDrop(n) == n

ScheduleSend(n) == IF n < PendingCap THEN n + 1 ELSE n

\* The cases of the worker's select that can proceed.
WorkerReady(c, n) ==
    (IF c THEN {"done"} ELSE {}) \cup (IF n > 0 THEN {"sig"} ELSE {})

\* The cases of the crawl's select that can proceed.
CrawlReadyNoDone(c, t) == IF t THEN {"tick"} ELSE {}

CrawlReady(c, t) ==
    (IF c THEN {"done"} ELSE {}) \cup (IF t THEN {"tick"} ELSE {})

\* Where the worker goes once it has called Run: the call is synchronous, so
\* it waits for the pass to return.
WorkerAfterCallDetached == "select"

WorkerAfterCall == "inRun"

\* Where the worker goes when Run returned an error: `continue`.
WorkerAfterErrorReturn == "exited"

WorkerAfterError == "select"

\* Where the worker goes when Run returned without error: the end of the
\* select case, and the for loop's next iteration.
WorkerAfterOk == "select"

\* productIndex's test: the cache is used when it is non-empty and younger
\* than indexTTL.
CacheFreshInverted(idx, fetchedAt, t) == Len(idx) > 0 /\ t - fetchedAt > indexTTL

CacheFresh(idx, fetchedAt, t) == Len(idx) > 0 /\ t - fetchedAt < indexTTL

\* Whether productIndex holds e.mu while it runs BuildProductIndex.
HoldsLockUnlocked(p) == 0

HoldsLock(p) == p

\* The thumbnail product prod is matched with in index idx, 0 when none: the
\* catalog entry of subcategory c is the one whose keywords are product c's.
Match(prod, idx) == IF prod \in Range(idx) THEN prod ELSE 0

ProductsWithoutImage == SeqOfSet({prod \in Products : image[prod] = 0})

\* --------------------------------------------------------------- Enricher
\* Run returns in pass p with or without an error: the slot is released and
\* the worker, when the pass is the one it is waiting for, goes on.
RunReturns(p, err) ==
    /\ pass' = [pass EXCEPT ![p] = FreePass]
    /\ IF pass[p].owner = "worker"
       THEN /\ workerLastErr' = err
            /\ worker' = IF worker = "inRun"
                         THEN (IF err THEN WorkerAfterError ELSE WorkerAfterOk)
                         ELSE worker
       ELSE UNCHANGED <<worker, workerLastErr>>

\* Start: launches the worker goroutine (called exactly once).
Start ==
    /\ worker = "notStarted"
    /\ worker' = "select"
    /\ UNCHANGED <<pending, cancelled, pass, mu, cachedIndex, indexFetchedAt,
                   now, tickReady, image, owed, workerLastErr, lastBuildAt,
                   lastBuildErr>>
    /\ UNCHANGED <<uploadVars, unitVars>>

\* Schedule: a non-blocking send. A worker parked in its select receives the
\* signal directly; otherwise the signal goes to the buffer if there is room.
ScheduleCall ==
    /\ IF worker = "parked" /\ "sig" \in WorkerReady(cancelled, 1)
       THEN /\ worker' = "recv"
            /\ UNCHANGED pending
       ELSE /\ pending' = ScheduleSend(pending)
            /\ UNCHANGED worker
    /\ owed' = TRUE
    /\ UNCHANGED <<cancelled, pass, mu, cachedIndex, indexFetchedAt, now,
                   tickReady, image, workerLastErr, lastBuildAt, lastBuildErr>>

Schedule == ScheduleCall /\ UNCHANGED <<uploadVars, unitVars>>

\* The shared context is cancelled: every goroutine parked in a select that
\* listens to ctx.Done() resumes with that case.
Cancel ==
    /\ ~cancelled
    /\ cancelled' = TRUE
    /\ worker' = IF worker = "parked" /\ "done" \in WorkerReady(TRUE, pending)
                 THEN "wokenDone" ELSE worker
    /\ pass' = [p \in Passes |->
                  IF pass[p].pc = "park" /\ "done" \in CrawlReady(TRUE, tickReady)
                  THEN [pass[p] EXCEPT !.pc = "wdone"] ELSE pass[p]]
    /\ UNCHANGED <<pending, mu, cachedIndex, indexFetchedAt, now, tickReady,
                   image, owed, workerLastErr, lastBuildAt, lastBuildErr>>
    /\ UNCHANGED <<uploadVars, unitVars>>

\* The worker's select (for { select { case <-ctx.Done(): ...; case <-e.pending: ... } }).
WorkerChoose(c) ==
    /\ worker = "select"
    /\ c \in WorkerReady(cancelled, pending)
    /\ IF c = "done"
       THEN worker' = "exited" /\ UNCHANGED pending
       ELSE worker' = "recv" /\ pending' = pending - 1
    /\ UNCHANGED <<cancelled, pass, mu, cachedIndex, indexFetchedAt, now,
                   tickReady, image, owed, workerLastErr, lastBuildAt, lastBuildErr>>
    /\ UNCHANGED <<uploadVars, unitVars>>

WorkerSelect == \E c \in {"done", "sig"} : WorkerChoose(c)

WorkerPark ==
    /\ worker = "select"
    /\ WorkerReady(cancelled, pending) = {}
    /\ worker' = "parked"
    /\ UNCHANGED <<pending, cancelled, pass, mu, cachedIndex, indexFetchedAt,
                   now, tickReady, image, owed, workerLastErr, lastBuildAt,
                   lastBuildErr>>
    /\ UNCHANGED <<uploadVars, unitVars>>

\* The worker resumes from its select with the ctx.Done() case: return.
WorkerExit ==
    /\ worker = "wokenDone"
    /\ worker' = "exited"
    /\ UNCHANGED <<pending, cancelled, pass, mu, cachedIndex, indexFetchedAt,
                   now, tickReady, image, owed, workerLastErr, lastBuildAt,
                   lastBuildErr>>
    /\ UNCHANGED <<uploadVars, unitVars>>

\* The worker, having received a signal, calls e.Run(ctx).
WorkerRun ==
    /\ worker = "recv"
    /\ \E p \in Passes : pass[p].owner = "free"
    /\ pass' = [pass EXCEPT ![LowestFree] =
                   [FreePass EXCEPT !.owner = "worker", !.pc = "lock"]]
    /\ worker' = WorkerAfterCall
    /\ owed' = FALSE
    /\ UNCHANGED <<pending, cancelled, mu, cachedIndex, indexFetchedAt, now,
                   tickReady, image, workerLastErr, lastBuildAt, lastBuildErr>>
    /\ UNCHANGED <<uploadVars, unitVars>>

\* Another goroutine calls e.Run(ctx) itself.
DirectRun ==
    /\ Cardinality({p \in Passes : pass[p].owner = "direct"}) < MaxDirect
    /\ \E p \in Passes : pass[p].owner = "free"
    /\ pass' = [pass EXCEPT ![HighestFree] =
                   [FreePass EXCEPT !.owner = "direct", !.pc = "lock"]]
    /\ UNCHANGED <<pending, worker, cancelled, mu, cachedIndex, indexFetchedAt,
                   now, tickReady, image, owed, workerLastErr, lastBuildAt,
                   lastBuildErr>>
    /\ UNCHANGED <<uploadVars, unitVars>>

\* ------------------------------------------------ Run, productIndex, crawl
\* productIndex with e.mu acquired by pass p: return the cache when it is
\* fresh (lock and deferred unlock in one step), else invoke
\* BuildProductIndex with the lock held.
Acquire(p, didWait) ==
    IF CacheFresh(cachedIndex, indexFetchedAt, now)
    THEN /\ pass' = [pass EXCEPT ![p].pc = "list", ![p].index = cachedIndex,
                                 ![p].waited = didWait]
         /\ UNCHANGED <<mu, lastBuildAt>>
    ELSE /\ pass' = [pass EXCEPT ![p].pc = "cats", ![p].waited = didWait]
         /\ mu' = HoldsLock(p)
         /\ lastBuildAt' = now

\* e.mu.Lock() at the top of productIndex: taken at once when free.
Lock(p) ==
    /\ pass[p].pc = "lock"
    /\ IF mu = 0
       THEN Acquire(p, FALSE)
       ELSE /\ pass' = [pass EXCEPT ![p].pc = "lockWait", ![p].waited = TRUE]
            /\ UNCHANGED <<mu, lastBuildAt>>
    /\ UNCHANGED <<pending, worker, cancelled, cachedIndex, indexFetchedAt,
                   now, tickReady, image, owed, workerLastErr, lastBuildErr>>
    /\ UNCHANGED <<uploadVars, unitVars>>

\* A pass blocked in e.mu.Lock() gets the mutex once it is released.
LockAcquire(p) ==
    /\ pass[p].pc = "lockWait"
    /\ mu = 0
    /\ Acquire(p, TRUE)
    /\ UNCHANGED <<pending, worker, cancelled, cachedIndex, indexFetchedAt,
                   now, tickReady, image, owed, workerLastErr, lastBuildErr>>
    /\ UNCHANGED <<uploadVars, unitVars>>

\* What e.cachedIndex holds once productIndex has returned BuildProductIndex's
\* error: "if err != nil { return nil, err }" comes before the assignment, so
\* the index collected so far is dropped.
CacheAfterErrorPartial(cached, partial) == partial

CacheAfterError(cached, partial) == cached

\* BuildProductIndex returns an error: productIndex returns (nil, err) without
\* touching the cache, its deferred Unlock runs, and Run returns the error.
BuildFails(p) ==
    /\ mu' = IF mu = p THEN 0 ELSE mu
    /\ lastBuildErr' = TRUE
    /\ tickReady' = FALSE
    /\ RunReturns(p, TRUE)
    /\ cachedIndex' = CacheAfterError(cachedIndex, pass[p].index)
    /\ UNCHANGED indexFetchedAt

\* fetchSubcategoryIDs: the unthrottled category-tree request. It fails when
\* the context is already cancelled and may fail otherwise; on success the
\* ticker is created and the loop over the published ids starts.
FetchCats(p) ==
    /\ pass[p].pc = "cats"
    /\ \/ BuildFails(p)
       \/ /\ ~cancelled
          /\ \E n \in 0..MaxCats :
               pass' = [pass EXCEPT ![p].pc = "sel",
                                    ![p].ids = [i \in 1..n |-> i],
                                    ![p].index = <<>>]
          /\ tickReady' = FALSE
          /\ UNCHANGED <<mu, lastBuildErr, worker, workerLastErr, cachedIndex,
                         indexFetchedAt>>
    /\ UNCHANGED <<pending, cancelled, now, image, owed, lastBuildAt>>
    /\ UNCHANGED <<uploadVars, unitVars>>

\* The head of BuildProductIndex's loop. With no id left the index is
\* returned and productIndex caches it; else the select on ctx.Done() and
\* ticker.C runs.
CrawlDone(p) ==
    /\ pass[p].pc = "sel"
    /\ pass[p].ids = <<>>
    /\ cachedIndex' = pass[p].index
    /\ indexFetchedAt' = now
    /\ mu' = IF mu = p THEN 0 ELSE mu
    /\ lastBuildErr' = FALSE
    /\ tickReady' = FALSE
    /\ pass' = [pass EXCEPT ![p].pc = "list", ![p].ids = <<>>,
                             ![p].waited = FALSE]
    /\ UNCHANGED <<pending, worker, cancelled, now, image, owed,
                   workerLastErr, lastBuildAt>>
    /\ UNCHANGED <<uploadVars, unitVars>>

CrawlChoose(p, c) ==
    /\ pass[p].pc = "sel"
    /\ pass[p].ids # <<>>
    /\ c \in CrawlReady(cancelled, tickReady)
    /\ IF c = "done"
       THEN BuildFails(p)
       ELSE /\ tickReady' = FALSE
            /\ pass' = [pass EXCEPT ![p].pc = "fetch"]
            /\ UNCHANGED <<mu, lastBuildErr, worker, workerLastErr, cachedIndex,
                           indexFetchedAt>>
    /\ UNCHANGED <<pending, cancelled, now, image, owed, lastBuildAt>>
    /\ UNCHANGED <<uploadVars, unitVars>>

CrawlSelect(p) == \E c \in {"done", "tick"} : CrawlChoose(p, c)

CrawlPark(p) ==
    /\ pass[p].pc = "sel"
    /\ pass[p].ids # <<>>
    /\ CrawlReady(cancelled, tickReady) = {}
    /\ pass' = [pass EXCEPT ![p].pc = "park"]
    /\ UNCHANGED <<pending, worker, cancelled, mu, cachedIndex, indexFetchedAt,
                   now, tickReady, image, owed, workerLastErr, lastBuildAt,
                   lastBuildErr>>
    /\ UNCHANGED <<uploadVars, unitVars>>

\* The crawl resumes from its select with the ctx.Done() case:
\* return index, ctx.Err().
CrawlCancelled(p) ==
    /\ pass[p].pc = "wdone"
    /\ BuildFails(p)
    /\ UNCHANGED <<pending, cancelled, now, image, owed, lastBuildAt>>
    /\ UNCHANGED <<uploadVars, unitVars>>

\* fetchProductsInSubcategory for the next id: a failure is logged and the id
\* skipped; a request made with a cancelled context fails.
Fetch(p) ==
    /\ pass[p].pc = "fetch"
    /\ \E ok \in (IF cancelled THEN {FALSE} ELSE BOOLEAN) :
         pass' = [pass EXCEPT
                    ![p].pc = "sel",
                    ![p].ids = Tail(pass[p].ids),
                    ![p].index = IF ok THEN Append(pass[p].index, Head(pass[p].ids))
                                 ELSE pass[p].index]
    /\ UNCHANGED <<pending, worker, cancelled, mu, cachedIndex, indexFetchedAt,
                   now, tickReady, image, owed, workerLastErr, lastBuildAt,
                   lastBuildErr>>
    /\ UNCHANGED <<uploadVars, unitVars>>

\* The ticker fires while a crawl's ticker exists: a crawl parked in its
\* select takes the tick; otherwise it is buffered, or dropped when one is
\* buffered already.
Tick ==
    /\ \E p \in Passes : pass[p].pc \in {"sel", "park", "fetch"}
    /\ IF \E p \in Passes : pass[p].pc = "park"
       THEN /\ pass' = [p \in Passes |->
                          IF pass[p].pc = "park"
                          THEN [pass[p] EXCEPT !.pc = "fetch"] ELSE pass[p]]
            /\ UNCHANGED tickReady
       ELSE /\ ~tickReady
            /\ tickReady' = TRUE
            /\ UNCHANGED pass
    /\ UNCHANGED <<pending, worker, cancelled, mu, cachedIndex, indexFetchedAt,
                   now, image, owed, workerLastErr, lastBuildAt, lastBuildErr>>
    /\ UNCHANGED <<uploadVars, unitVars>>

\* GetProductsWithoutImage.
List(p) ==
    /\ pass[p].pc = "list"
    /\ \/ /\ pass' = [pass EXCEPT ![p].pc = "loop", ![p].waited = FALSE,
                                  ![p].results = ProductsWithoutImage]
          /\ UNCHANGED <<worker, workerLastErr>>
       \/ RunReturns(p, TRUE)
    /\ UNCHANGED <<pending, cancelled, mu, cachedIndex, indexFetchedAt, now,
                   tickReady, image, owed, lastBuildAt, lastBuildErr>>
    /\ UNCHANGED <<uploadVars, unitVars>>

\* One iteration of Run's loop over the listed products, or its end.
Loop(p) ==
    /\ pass[p].pc = "loop"
    /\ IF pass[p].results = <<>>
       THEN RunReturns(p, FALSE) /\ UNCHANGED image
       ELSE LET prod == Head(pass[p].results)
                url  == Match(prod, pass[p].index)
            IN  IF url = 0
                THEN /\ pass' = [pass EXCEPT ![p].results = Tail(pass[p].results)]
                     /\ UNCHANGED <<image, worker, workerLastErr>>
                ELSE \/ /\ image' = [image EXCEPT ![prod] = url]
                        /\ pass' = [pass EXCEPT ![p].results = Tail(pass[p].results)]
                        /\ UNCHANGED <<worker, workerLastErr>>
                     \/ RunReturns(p, TRUE) /\ UNCHANGED image
    /\ UNCHANGED <<pending, cancelled, mu, cachedIndex, indexFetchedAt, now,
                   tickReady, owed, lastBuildAt, lastBuildErr>>
    /\ UNCHANGED <<uploadVars, unitVars>>

\* Time passes, half a TTL at a time: a cache is then new, younger than
\* indexTTL, or as old as indexTTL.
Advance ==
    /\ now + indexTTL \div 2 <= MaxTime
    /\ now' = now + indexTTL \div 2
    /\ UNCHANGED <<pending, worker, cancelled, pass, mu, cachedIndex,
                   indexFetchedAt, tickReady, image, owed, workerLastErr,
                   lastBuildAt, lastBuildErr>>
    /\ UNCHANGED <<uploadVars, unitVars>>

PassStep(p) ==
    \/ Lock(p)
    \/ LockAcquire(p)
    \/ FetchCats(p)
    \/ CrawlDone(p)
    \/ CrawlSelect(p)
    \/ CrawlPark(p)
    \/ CrawlCancelled(p)
    \/ Fetch(p)
    \/ List(p)
    \/ Loop(p)

WorkerStep ==
    \/ WorkerSelect
    \/ WorkerPark
    \/ WorkerExit
    \/ WorkerRun

Next ==
    \/ Start
    \/ Schedule
    \/ Cancel
    \/ DirectRun
    \/ Tick
    \/ Advance
    \/ WorkerSelect
    \/ WorkerPark
    \/ WorkerExit
    \/ WorkerRun
    \/ \E p \in Passes : Lock(p)
    \/ \E p \in Passes : LockAcquire(p)
    \/ \E p \in Passes : FetchCats(p)
    \/ \E p \in Passes : CrawlDone(p)
    \/ \E p \in Passes : CrawlSelect(p)
    \/ \E p \in Passes : CrawlPark(p)
    \/ \E p \in Passes : CrawlCancelled(p)
    \/ \E p \in Passes : Fetch(p)
    \/ \E p \in Passes : List(p)
    \/ \E p \in Passes : Loop(p)

Spec == Init /\ [][Next]_vars

\* ------------------------------------------- TicketHandler, Importer, store
enricherVars == <<pending, worker, cancelled, pass, mu, cachedIndex,
                  indexFetchedAt, now, tickReady, image, owed, workerLastErr,
                  lastBuildAt, lastBuildErr>>

\* The tickets the parser may return: up to MaxLines lines, each a name.
TicketLines == UNION {[1..n -> Names] : n \in 0..MaxLines}

\* handlers.New's enr: the handler studied here is the one the server wires
\* to an Enricher. With a nil enr there is no scheduler and the handler's
\* last statement is skipped.
EnricherWired == TRUE

\* The responses after which TicketHandler goes on to h.enricher.Schedule():
\* every other response is followed by a return.
CallsScheduleAlways(code) == TRUE

CallsSchedule(code) == code = 201 /\ EnricherWired

\* price_records as the other connections' users see it after a statement of
\* an open transaction: unchanged, the row is the transaction's until Commit.
RecordsAfterExecAutocommit(recs, row) == recs \cup {row}

RecordsAfterExec(recs, row) == recs

\* price_records after tx.Commit(): the transaction's rows are added to the
\* rows the table holds.
RecordsAfterCommitReplace(recs, written) == written

RecordsAfterCommit(recs, written) == recs \cup written

\* IsFileProcessed's answer for a filename: whether a row holds it.
IsFileProcessed(f) == f \in processedFiles

\* The handler writes response `code` for request record r and returns, or
\* goes on to Schedule.
Exited(r, code) ==
    [r EXCEPT !.status = code,
              !.pc = IF CallsSchedule(code) THEN "schedule" ELSE "done"]

\* Import returns (nil, err): the handler answers 422.
ImportFailed(r, why) == Exited([r EXCEPT !.failed = why, !.result = -1], 422)

\* A request arrives: a wrong method, an unparsable form or a missing "file"
\* field is answered at once (f = 0); else the filename is read.
Arrive(u) ==
    /\ req[u].pc = "new"
    /\ \E f \in Files \cup {0} :
         req' = [req EXCEPT ![u] =
                   IF f = 0 THEN Exited(@, 400)
                   ELSE [@ EXCEPT
                           !.pc = "check", !.file = f,
                           !.prior = \E v \in Uploads :
                                        req[v].file = f /\ req[v].status = 201]]
    /\ UNCHANGED <<productRows, priceRecords, processedFiles, conn, tx>>
    /\ UNCHANGED <<enricherVars, unitVars>>

\* h.store.IsFileProcessed(filename), on the one connection.
CheckProcessed(u) ==
    /\ req[u].pc = "check"
    /\ conn = 0
    /\ \/ req' = [req EXCEPT ![u] = Exited(@, 500)]
       \/ req' = [req EXCEPT ![u] =
                    IF IsFileProcessed(req[u].file) THEN Exited(@, 409)
                    ELSE [@ EXCEPT !.pc = "import"]]
    /\ UNCHANGED <<productRows, priceRecords, processedFiles, conn, tx>>
    /\ UNCHANGED <<enricherVars, unitVars>>

\* io.ReadAll, then Import up to its store call: Extract, Parse, and the
\* entries built from the ticket's lines. UpsertPriceRecordBatch returns nil
\* at once for no entries.
ImportParse(u) ==
    /\ req[u].pc = "import"
    /\ \/ req' = [req EXCEPT ![u] = Exited(@, 500)]
       \/ req' = [req EXCEPT ![u] =
                    ImportFailed([@ EXCEPT !.extractCalls = @ + 1], "extract")]
       \/ req' = [req EXCEPT ![u] =
                    ImportFailed([@ EXCEPT !.extractCalls = @ + 1], "parse")]
       \/ \E ls \in TicketLines :
            req' = [req EXCEPT ![u] =
                      [@ EXCEPT !.extractCalls = @ + 1,
                                !.storeCalls = @ + 1,
                                !.lines = ls,
                                !.result = IF ls = <<>> THEN 0 ELSE -1,
                                !.pc = IF ls = <<>> THEN "mark" ELSE "begin"]]
    /\ UNCHANGED <<productRows, priceRecords, processedFiles, conn, tx>>
    /\ UNCHANGED <<enricherVars, unitVars>>

\* s.db.Begin(): takes the connection for the transaction, or fails.
Begin(u) ==
    /\ req[u].pc = "begin"
    /\ conn = 0
    /\ \/ /\ req' = [req EXCEPT ![u] = ImportFailed(@, "persist")]
          /\ UNCHANGED <<conn, tx>>
       \/ /\ req' = [req EXCEPT ![u].pc = "exec"]
          /\ conn' = u
          /\ tx' = NoTx
    /\ UNCHANGED <<productRows, priceRecords, processedFiles>>
    /\ UNCHANGED <<enricherVars, unitVars>>

\* The deferred tx.Rollback() after an error: the transaction's rows are
\* dropped and the connection released.
Rollback(u) ==
    /\ req' = [req EXCEPT ![u] = ImportFailed(@, "persist")]
    /\ conn' = 0
    /\ tx' = NoTx

\* One iteration of UpsertPriceRecordBatch's loop: INSERT OR IGNORE the
\* product, INSERT the price record; either statement may fail.
Exec(u) ==
    /\ req[u].pc = "exec"
    /\ conn = u
    /\ LET i    == req[u].next
           name == req[u].lines[i]
       IN  \/ /\ Rollback(u)
              /\ UNCHANGED priceRecords
           \/ /\ tx' = [products |-> IF productRows[name] = 0
                                     THEN tx.products \cup {name}
                                     ELSE tx.products,
                        records  |-> tx.records \cup {<<u, i, name>>}]
              /\ priceRecords' = RecordsAfterExec(priceRecords, <<u, i, name>>)
              /\ req' = [req EXCEPT
                           ![u].next = i + 1,
                           ![u].pc = IF i = Len(req[u].lines) THEN "commit"
                                     ELSE "exec"]
              /\ UNCHANGED conn
    /\ UNCHANGED <<productRows, processedFiles>>
    /\ UNCHANGED <<enricherVars, unitVars>>

\* tx.Commit(): the transaction's rows become the tables', or it fails.
Commit(u) ==
    /\ req[u].pc = "commit"
    /\ conn = u
    /\ \/ /\ Rollback(u)
          /\ UNCHANGED <<productRows, priceRecords>>
       \/ /\ productRows' = [n \in Names |->
                               IF n \in tx.products /\ productRows[n] = 0
                               THEN u ELSE productRows[n]]
          /\ priceRecords' = RecordsAfterCommit(priceRecords, tx.records)
          /\ conn' = 0
          /\ tx' = NoTx
          /\ req' = [req EXCEPT ![u].pc = "mark",
                                ![u].result = Len(req[u].lines)]
    /\ UNCHANGED processedFiles
    /\ UNCHANGED <<enricherVars, unitVars>>

\* h.store.MarkFileProcessed(filename, time.Now()): a failure is logged and
\* the handler carries on; then the 201 response is written.
MarkProcessed(u) ==
    /\ req[u].pc = "mark"
    /\ conn = 0
    /\ \/ processedFiles' = processedFiles \cup {req[u].file}
       \/ UNCHANGED processedFiles
    /\ req' = [req EXCEPT ![u] = Exited(@, 201)]
    /\ UNCHANGED <<productRows, priceRecords, conn, tx>>
    /\ UNCHANGED <<enricherVars, unitVars>>

\* h.enricher.Schedule(), the handler's last statement.
CallSchedule(u) ==
    /\ req[u].pc = "schedule"
    /\ ScheduleCall
    /\ req' = [req EXCEPT ![u].pc = "done", ![u].schedCalls = @ + 1]
    /\ UNCHANGED <<productRows, priceRecords, processedFiles, conn, tx>>
    /\ UNCHANGED unitVars

UploadNext ==
    \/ \E u \in Uploads : Arrive(u)
    \/ \E u \in Uploads : CheckProcessed(u)
    \/ \E u \in Uploads : ImportParse(u)
    \/ \E u \in Uploads : Begin(u)
    \/ \E u \in Uploads : Exec(u)
    \/ \E u \in Uploads : Commit(u)
    \/ \E u \in Uploads : MarkProcessed(u)
    \/ \E u \in Uploads : CallSchedule(u)

UploadSpec == Init /\ [][UploadNext]_vars

\* -------------------------------------------- BuildProductIndex on a clock
\* One call of BuildProductIndex with time made explicit: the requests take
\* any time, the ticker fires every subcategoryDelay after its creation into
\* a channel that buffers one tick.
frameCrawl == <<enricherVars, uploadVars, parse, match, db, translate, multi, run, ix>>

\* The index after fetchProductsInSubcategory(id) returned: its products'
\* entries are appended when it succeeded, nothing when it failed.
IndexAfterFetchAlways(index, id, ok) == Append(index, id)

IndexAfterFetch(index, id, ok) == IF ok THEN Append(index, id) ELSE index

\* A per-category request starts at the crawl's clock: `tick` tells whether
\* the select's ticker case led to it.
RequestStarts(c, tick) ==
    [c EXCEPT !.pc = "fetch",
              !.starts = @ + 1,
              !.lastStart = c.clock,
              !.viaTick = c.viaTick /\ tick,
              !.minGap = IF c.lastStart = -1 THEN @
                         ELSE IF @ = -1 \/ c.clock - c.lastStart < @
                              THEN c.clock - c.lastStart ELSE @]

\* BuildProductIndex returns: the deferred ticker.Stop() runs.
CrawlReturns(c, e) == [c EXCEPT !.pc = "returned", !.err = e, !.nextTick = -1]

\* fetchSubcategoryIDs returns: an error ends the call; else the ticker is
\* created and the loop over the published ids begins.
TreeRequest ==
    /\ crawl.pc = "tree"
    /\ \/ crawl' = CrawlReturns([crawl EXCEPT !.treeFailed = TRUE], "tree")
       \/ /\ ~crawl.cancelled
          /\ \E n \in 0..MaxCrawlCats :
               crawl' = [crawl EXCEPT !.pc = "sel",
                                      !.ids = [i \in 1..n |-> i],
                                      !.listed = n,
                                      !.nextTick = crawl.clock + subcategoryDelay]
    /\ UNCHANGED frameCrawl

\* The loop's range is exhausted: return index, nil.
LoopEnds ==
    /\ crawl.pc = "sel"
    /\ crawl.ids = <<>>
    /\ crawl' = CrawlReturns(crawl, "none")
    /\ UNCHANGED frameCrawl

\* The select finds a case ready: ctx.Done() returns index, ctx.Err(); the
\* ticker's case takes the buffered tick and the request is made.
SelectTakes(c) ==
    /\ crawl.pc = "sel"
    /\ crawl.ids # <<>>
    /\ c \in CrawlReady(crawl.cancelled, crawl.tick)
    /\ crawl' = IF c = "done" THEN CrawlReturns(crawl, "ctx")
                ELSE RequestStarts([crawl EXCEPT !.tick = FALSE], TRUE)
    /\ UNCHANGED frameCrawl

SelectReady == \E c \in {"done", "tick"} : SelectTakes(c)

\* The select finds no case ready: the goroutine parks.
SelectParks ==
    /\ crawl.pc = "sel"
    /\ crawl.ids # <<>>
    /\ CrawlReady(crawl.cancelled, crawl.tick) = {}
    /\ crawl' = [crawl EXCEPT !.pc = "park"]
    /\ UNCHANGED frameCrawl

\* The ticker fires: a parked select receives the tick and the request is
\* made; else the tick is buffered, or dropped when one is buffered.
TickerFires ==
    /\ crawl.nextTick = crawl.clock
    /\ LET c == [crawl EXCEPT !.nextTick = @ + subcategoryDelay]
       IN  crawl' = IF crawl.pc = "park" THEN RequestStarts(c, TRUE)
                    ELSE [c EXCEPT !.tick = TRUE]
    /\ UNCHANGED frameCrawl

\* The context is cancelled: a parked select resumes with ctx.Done().
CtxCancelled ==
    /\ ~crawl.cancelled
    /\ crawl.pc # "returned"
    /\ crawl' = IF crawl.pc = "park"
                THEN CrawlReturns([crawl EXCEPT !.cancelled = TRUE], "ctx")
                ELSE [crawl EXCEPT !.cancelled = TRUE]
    /\ UNCHANGED frameCrawl

\* fetchProductsInSubcategory returns, after any time: a failure (always,
\* once the context is cancelled) is logged and the loop continues.
RequestReturns ==
    /\ crawl.pc = "fetch"
    /\ \E ok \in (IF crawl.cancelled THEN {FALSE} ELSE BOOLEAN) :
         LET id == Head(crawl.ids)
         IN  crawl' = [crawl EXCEPT
                         !.pc = "sel",
                         !.ids = Tail(@),
                         !.index = IndexAfterFetch(@, id, ok),
                         !.okIds = IF ok THEN @ \cup {id} ELSE @]
    /\ UNCHANGED frameCrawl

\* A second passes; the ticker fires on time.
ClockAdvances ==
    /\ crawl.pc # "returned"
    /\ crawl.clock < MaxClock
    /\ crawl.nextTick # crawl.clock
    /\ crawl' = [crawl EXCEPT !.clock = @ + 1]
    /\ UNCHANGED frameCrawl

CrawlNext ==
    \/ TreeRequest
    \/ LoopEnds
    \/ SelectReady
    \/ SelectParks
    \/ TickerFires
    \/ CtxCancelled
    \/ RequestReturns
    \/ ClockAdvances

CrawlSpec == Init /\ [][CrawlNext]_vars

\* ------------------------------------------------- MercadonaParser.Parse
\* A line of receipt text after strings.TrimSpace: its text `s`, and what the
\* parser's regular expressions make of it. `k` is the first pattern of the
\* list below the line matches (they are tried in this order where several
\* are tried), `q` the integer strconv.Atoi returns for its quantity digits
\* (-1: out of range), `eu`,`ct` the digits of the price the patterns capture,
\* `name` the name they capture, `date` what time.Parse makes of its first
\* NN/NN/NNNN (0 none, -1 not a date, else the day), `inv` its invoice
\* number after "FACTURA SIMPLIFICADA:" ("" none).
\*   "blank"   the empty line             "footer"  reFooter
\*   "descr"   "Descripció"               "residue" "P. Unit", "Import"
\*   "colhdr"  reColumnHeaderSingle       "qty"     reQty
\*   "price"   rePrice                    "weight"  reWeightKg
\*   "ppk"     rePricePerKg               "wcont"   reWeightLineSingle
\*   "unitN"   reUnitMulti                "unit1"   reUnitSingle
\*   "wname"   "1 " followed by text that does not end in a price
\*   "text"    any other line
Line(s, k, q, eu, ct, name, date, inv) ==
    [s |-> s, k |-> k, q |-> q, eu |-> eu, ct |-> ct, name |-> name,
     date |-> date, inv |-> inv]

\* parsePrice: "1,35" is 1.35; prices are kept in cents.
parsePriceSwapped(l) == l.ct * 100 + l.eu

parsePrice(l) == l.eu * 100 + l.ct

TicketLine(name, unitPrice, quantity) ==
    [Name |-> name, UnitPrice |-> unitPrice, Quantity |-> quantity]

\* sNameLine's test `trimmed == "P. Unit" || trimmed == "Import"`.
IsHeaderResidueNever(l) == FALSE

IsHeaderResidue(l) == l.k = "residue"

\* parseMultiLineBody's locals before its loop.
MultiStart == [state |-> "sIdle", pendingName |-> "", pendingQty |-> 0,
               lines |-> <<>>, done |-> FALSE]

\* One iteration of parseMultiLineBody's loop, on line l.
MultiLineStep(st, l) ==
    IF l.k = "footer" THEN [st EXCEPT !.done = TRUE]
    ELSE IF st.state = "sIdle"
    THEN IF l.k = "descr" THEN [st EXCEPT !.state = "sQty"] ELSE st
    ELSE IF l.k = "blank" THEN st
    ELSE IF st.state = "sQty"
    THEN IF l.k = "qty" /\ l.q # -1
         THEN [st EXCEPT !.pendingQty = l.q, !.state = "sNameLine"]
         ELSE st
    ELSE IF st.state = "sNameLine"
    THEN IF IsHeaderResidue(l) THEN st
         ELSE IF l.k \in {"price", "qty"}
         THEN [st EXCEPT !.state = "sQty", !.pendingQty = 0]
         ELSE [st EXCEPT !.pendingName = l.s, !.state = "sPrice"]
    ELSE IF st.state = "sPrice"
    THEN IF l.k = "weight" THEN [st EXCEPT !.state = "sWeightPPK"]
         ELSE IF l.k = "price"
         THEN [st EXCEPT
                 !.lines = Append(@, TicketLine(st.pendingName, parsePrice(l),
                                                st.pendingQty)),
                 !.state = IF st.pendingQty = 1 THEN "sQty" ELSE "sTotal"]
         ELSE [st EXCEPT !.state = "sQty"]
    ELSE IF st.state = "sWeightPPK"
    THEN IF l.k = "ppk"
         THEN [st EXCEPT
                 !.lines = Append(@, TicketLine(st.pendingName, parsePrice(l),
                                                st.pendingQty)),
                 !.state = "sTotal"]
         ELSE st
    ELSE [st EXCEPT !.state = "sQty"]

\* parseMultiLineBody's loop from line i on: `break` at the footer.
RECURSIVE MultiLoop(_, _, _)
MultiLoop(st, lines, i) ==
    IF i > Len(lines) \/ st.done THEN st
    ELSE MultiLoop(MultiLineStep(st, lines[i]), lines, i + 1)

parseMultiLineBody(lines) == MultiLoop(MultiStart, lines, 1).lines

\* parseSingleLineBody's locals before its loop.
SingleStart == [inBody |-> FALSE, pendingWeightProduct |-> "",
                lines |-> <<>>, done |-> FALSE]

\* The part of parseSingleLineBody's iteration after the weight
\* continuation: the two unit patterns, then the weight product's first line.
SingleLineItem(st, l) ==
    IF l.k = "unitN"
    THEN IF l.q = -1 THEN st
         ELSE [st EXCEPT !.lines = Append(@, TicketLine(l.name, parsePrice(l),
                                                        l.q))]
    ELSE IF l.k = "unit1"
    THEN [st EXCEPT !.lines = Append(@, TicketLine(l.name, parsePrice(l), 1))]
    ELSE IF l.k = "wname"
    THEN [st EXCEPT !.pendingWeightProduct = l.name]
    ELSE st

\* One iteration of parseSingleLineBody's loop, on line l.
SingleLineStep(st, l) ==
    IF l.k = "footer" THEN [st EXCEPT !.done = TRUE]
    ELSE IF l.k = "colhdr" THEN [st EXCEPT !.inBody = TRUE]
    ELSE IF ~st.inBody \/ l.k = "blank" THEN st
    ELSE IF st.pendingWeightProduct # ""
    THEN IF l.k = "wcont"
         THEN [st EXCEPT
                 !.lines = Append(@, TicketLine(st.pendingWeightProduct,
                                                parsePrice(l), 1)),
                 !.pendingWeightProduct = ""]
         ELSE SingleLineItem([st EXCEPT !.pendingWeightProduct = ""], l)
    ELSE SingleLineItem(st, l)

RECURSIVE SingleLoop(_, _, _)
SingleLoop(st, lines, i) ==
    IF i > Len(lines) \/ st.done THEN st
    ELSE SingleLoop(SingleLineStep(st, lines[i]), lines, i + 1)

parseSingleLineBody(lines) == SingleLoop(SingleStart, lines, 1).lines

\* Whether the line's first NN/NN/NNNN is found and time.Parse accepts it.
TimeParseOkAnyDigits(d) == d # 0

TimeParseOk(d) == d > 0

\* Parse's header loop from line i on: the first date time.Parse accepts and
\* the first invoice number, until both are found.
RECURSIVE HeaderLoop(_, _, _)
HeaderLoop(t, lines, i) ==
    IF i > Len(lines) \/ (t.Date # 0 /\ t.InvoiceNumber # "") THEN t
    ELSE LET l == lines[i]
             d == IF t.Date = 0 /\ TimeParseOk(l.date) THEN l.date ELSE t.Date
             v == IF t.InvoiceNumber = "" /\ l.inv # "" THEN l.inv
                  ELSE t.InvoiceNumber
         IN  HeaderLoop([t EXCEPT !.Date = d, !.InvoiceNumber = v], lines,
                        i + 1)

\* The layout Parse detects: single-line when some line of the text matches
\* reColumnHeaderSingle.
DetectSingleLine(lines) == \E i \in 1..Len(lines) : lines[i].k = "colhdr"

\* Parse(text): Date 0 is the zero time; isNil tells a nil *Ticket.
Parse(lines) ==
    LET t == HeaderLoop([Date |-> 0, InvoiceNumber |-> ""], lines, 1)
    IN  IF t.Date = 0
        THEN [err |-> TRUE, isNil |-> TRUE, Date |-> 0, InvoiceNumber |-> "",
              Lines |-> <<>>]
        ELSE [err |-> FALSE, isNil |-> FALSE, Date |-> t.Date,
              InvoiceNumber |-> t.InvoiceNumber,
              Lines |-> IF DetectSingleLine(lines)
                        THEN parseSingleLineBody(lines)
                        ELSE parseMultiLineBody(lines)]

\* ------------------------------------------------------ the texts parsed
Cents(c) == IF c % 100 < 10 THEN "0" \o ToString(c % 100) ELSE ToString(c % 100)

PriceText(c) == ToString(c \div 100) \o "," \o Cents(c)

BlankLine   == Line("", "blank", 0, 0, 0, "", 0, "")
FooterLine  == Line("TOTAL (€) 12,34", "footer", 0, 0, 0, "", 0, "")
DescrLine   == Line("Descripció", "descr", 0, 0, 0, "", 0, "")
ResidueLine == Line("P. Unit", "residue", 0, 0, 0, "", 0, "")
ColumnHeaderLine ==
    Line("Descripció   P. Unit   Import", "colhdr", 0, 0, 0, "", 0, "")
WeightLine  == Line("0,432 kg", "weight", 0, 0, 0, "", 0, "")
DateLine    == Line("09/02/2026 19:43", "text", 0, 0, 0, "", 1, "")

QtyLine(q)   == Line(ToString(q), "qty", q, 0, 0, "", 0, "")
PriceLine(c) == Line(PriceText(c), "price", 0, c \div 100, c % 100, "", 0, "")
PpkLine(c)   == Line(PriceText(c) \o " €/kg", "ppk", 0, c \div 100, c % 100,
                     "", 0, "")
NameLine(n)  == Line(n, "text", 0, 0, 0, "", 0, "")

\* The tokens a split column header leaves on lines of their own, and such a
\* token on a line of its own.
ResidueTokens == {"P. Unit", "Import"}

ResidueNameLine(tok) == Line(tok, "residue", 0, 0, 0, "", 0, "")

\* Single-line layout: "1   NAME   0,45", "3   NAME   0,45   1,35",
\* "1 NAME", "0,432 kg   2,45 €/kg   1,06", and "2 NAME", which no
\* pattern of the single-line body matches.
Unit1Line(n, c) ==
    Line("1   " \o n \o "   " \o PriceText(c), "unit1", 1, c \div 100, c % 100,
         n, 0, "")
UnitNLine(q, n, c) ==
    Line(ToString(q) \o "   " \o n \o "   " \o PriceText(c) \o "   "
           \o PriceText(q * c),
         "unitN", q, c \div 100, c % 100, n, 0, "")
WNameLine(q, n) ==
    Line(ToString(q) \o " " \o n, IF q = 1 THEN "wname" ELSE "text", q, 0, 0,
         n, 0, "")
WContLine(c) ==
    Line("0,432 kg   " \o PriceText(c) \o " €/kg   1,06", "wcont", 0,
         c \div 100, c % 100, "", 0, "")

\* The items of a receipt body: a unit item (quantity, name, unit price) or
\* a weight item (quantity token, name, price per kg).
ItemNames  == {"ALFA", "BETA"}
ItemPrices == {45, 135}
PpkPrice   == 245

Items ==
    [kind : {"unit"}, q : 0..MaxQty, name : ItemNames, price : ItemPrices]
      \cup [kind : {"weight"}, q : 0..MaxQty, name : ItemNames,
            price : {PpkPrice}]

\* The lines an item is printed on, in each layout.
ItemLines(layout, it) ==
    IF layout = "multi"
    THEN IF it.kind = "weight"
         THEN <<QtyLine(it.q), NameLine(it.name), WeightLine,
                PpkLine(it.price), PriceLine(106)>>
         ELSE IF it.q = 1
         THEN <<QtyLine(1), NameLine(it.name), PriceLine(it.price)>>
         ELSE <<QtyLine(it.q), NameLine(it.name), PriceLine(it.price),
                PriceLine(it.q * it.price)>>
    ELSE IF it.kind = "weight"
         THEN <<WNameLine(it.q, it.name), WContLine(it.price)>>
         ELSE IF it.q = 1 THEN <<Unit1Line(it.name, it.price)>>
         ELSE <<UnitNLine(it.q, it.name, it.price)>>

RECURSIVE BodyLines(_, _)
BodyLines(layout, items) ==
    IF items = <<>> THEN <<>>
    ELSE ItemLines(layout, Head(items)) \o BodyLines(layout, Tail(items))

\* The column header that opens the body, in each layout.
BodyHeader(layout) ==
    IF layout = "multi" THEN <<DescrLine, ResidueLine>>
    ELSE <<ColumnHeaderLine>>

SeqsUpTo(S, n) == UNION {[1..m -> S] : m \in 0..n}

\* What may follow the TOTAL line.
AfterLines ==
    {BlankLine, ColumnHeaderLine, DescrLine, QtyLine(1), NameLine("ALFA"),
     PriceLine(45), Unit1Line("BETA", 45), WNameLine(1, "BETA"),
     WContLine(PpkPrice)}

Tails == {<<>>} \cup {<<FooterLine>> \o a : a \in SeqsUpTo(AfterLines, MaxAfter)}

\* Lines that differ in their header fields only.
HeaderLines ==
    {Line("header", "text", 0, 0, 0, "", d, v) :
        d \in {0, -1, 1, 2}, v \in {"", "4144-017-284404", "4144-017-284405"}}

\* Parse is called on a receipt: a date line, the body's column header, the
\* items' lines, and possibly a TOTAL line and more.
ParseReceipt ==
    /\ ~parse.called
    /\ \E layout \in {"multi", "single"}, items \in SeqsUpTo(Items, MaxItems),
          tail \in Tails :
         LET text == <<DateLine>> \o BodyHeader(layout)
                       \o BodyLines(layout, items) \o tail
         IN  parse' = [called |-> TRUE, layout |-> layout, items |-> items,
                       text |-> text, out |-> Parse(text)]
    /\ UNCHANGED <<enricherVars, uploadVars, crawl, match, db, translate, multi, run, ix>>

\* Parse is called on a text of header lines.
ParseHeaders ==
    /\ ~parse.called
    /\ \E text \in SeqsUpTo(HeaderLines, MaxHeaderLines) :
         parse' = [called |-> TRUE, layout |-> "none", items |-> <<>>,
                   text |-> text, out |-> Parse(text)]
    /\ UNCHANGED <<enricherVars, uploadVars, crawl, match, db, translate, multi, run, ix>>

\* Parse is called on a receipt that carries a header-residue token where a
\* product name stands. Multi-line: the token between the quantity and the
\* item's name, or instead of the name. Single-line: a line whose name
\* column is the token, then the item's line.
ParseResidue ==
    /\ ~parse.called
    /\ \E layout \in {"multi", "single"}, tok \in ResidueTokens,
          q \in 1..MaxQty, name \in ItemNames, price \in ItemPrices,
          named \in BOOLEAN :
         LET it    == [kind |-> "unit", q |-> q, name |-> name,
                       price |-> price]
             asTok == [it EXCEPT !.name = tok]
             body  == IF layout = "multi"
                      THEN <<QtyLine(q), ResidueNameLine(tok)>>
                             \o (IF named THEN Tail(ItemLines("multi", it))
                                 ELSE Tail(Tail(ItemLines("multi", it))))
                      ELSE ItemLines("single", asTok)
                             \o (IF named THEN ItemLines("single", it)
                                 ELSE <<>>)
             text  == <<DateLine>> \o BodyHeader(layout) \o body
         IN  parse' = [called |-> TRUE, layout |-> layout,
                       items |-> IF layout = "multi"
                                 THEN (IF named THEN <<it>> ELSE <<>>)
                                 ELSE (IF named THEN <<asTok, it>>
                                       ELSE <<asTok>>),
                       text |-> text, out |-> Parse(text)]
    /\ UNCHANGED <<enricherVars, uploadVars, crawl, match, db, translate,
                   multi, run, ix>>

ParseNext == ParseHeaders \/ ParseReceipt \/ ParseResidue

ParseSpec == Init /\ [][ParseNext]_vars

\* parseMultiLineBody's loop taken one iteration at a time, on any stream
\* of lines: the lines a body may hold, in any order.
FeedLines ==
    {BlankLine, FooterLine, DescrLine, ResidueLine, WeightLine, QtyLine(1),
     QtyLine(2), PriceLine(45), PpkLine(PpkPrice), NameLine("ALFA"),
     NameLine("BETA")}

MultiFeed ==
    /\ multi.fed < MaxFed
    /\ ~multi.st.done
    /\ \E l \in FeedLines :
         multi' = [st |-> MultiLineStep(multi.st, l), fed |-> multi.fed + 1,
                   last |-> l]
    /\ UNCHANGED <<enricherVars, uploadVars, crawl, parse, match, db,
                   translate, run, ix>>

MultiSpec == Init /\ [][MultiFeed]_vars

\* ---------------------------------------------------------------- bestMatch
\* minMatchScore, 0.5, as a fraction; scores are fractions <<num, den>>.
minMatchScore == <<1, 2>>

\* The final test `bestScore >= minMatchScore`.
ScoreAtLeast(score, min) == score[1] * min[2] >= min[1] * score[2]

\* The loop's test `score > bestScore`, on fractions of positive denominator.
ScoreNotWorse(score, bestScore) ==
    score[1] * bestScore[2] >= bestScore[1] * score[2]

ScoreBetter(score, bestScore) ==
    score[1] * bestScore[2] > bestScore[1] * score[2]

\* matched: the entry's keywords, repetitions counted, found in localSet.
Matched(localKW, keywords) ==
    Cardinality({j \in 1..Len(keywords) : keywords[j] \in Range(localKW)})

\* score := 2.0 * float64(matched) / float64(len(localKW)+len(entry.Keywords)),
\* as the fraction <<numerator, denominator>>.
Score(localKW, keywords) ==
    <<2 * Matched(localKW, keywords), Len(localKW) + Len(keywords)>>

\* bestMatch's loop over the index from entry i on.
RECURSIVE MatchLoop(_, _, _, _)
MatchLoop(best, localKW, index, i) ==
    IF i > Len(index) THEN best
    ELSE LET entry   == index[i]
             matched == Matched(localKW, entry.Keywords)
             score   == Score(localKW, entry.Keywords)
         IN  IF Len(entry.Keywords) = 0 \/ matched = 0
             THEN MatchLoop(best, localKW, index, i + 1)
             ELSE IF ScoreBetter(score, best.bestScore)
             THEN MatchLoop([bestScore |-> score, bestURL |-> entry.Thumbnail],
                            localKW, index, i + 1)
             ELSE MatchLoop(best, localKW, index, i + 1)

bestMatch(localKW, index) ==
    IF Len(localKW) = 0 THEN [url |-> "", ok |-> FALSE]
    ELSE LET best == MatchLoop([bestScore |-> <<0, 1>>, bestURL |-> ""],
                               localKW, index, 1)
         IN  IF ScoreAtLeast(best.bestScore, minMatchScore)
             THEN [url |-> best.bestURL, ok |-> TRUE]
             ELSE [url |-> "", ok |-> FALSE]

\* The arguments of a call: keyword lists, repetitions allowed, and entries
\* with a thumbnail each.
KeywordLists == SeqsUpTo({"leche", "entera"}, MaxKeywords)

Thumbnails == {"leche.jpg", "pan.jpg"}

Indexes == SeqsUpTo([Thumbnail : Thumbnails, Keywords : KeywordLists], MaxIndex)

BestMatchCall ==
    /\ ~match.called
    /\ \E localKW \in KeywordLists, index \in Indexes :
         LET r == bestMatch(localKW, index)
         IN  match' = [called |-> TRUE, localKW |-> localKW, index |-> index,
                       url |-> r.url, ok |-> r.ok]
    /\ UNCHANGED <<enricherVars, uploadVars, crawl, parse, db, translate, multi, run, ix>>

MatchSpec == Init /\ [][BestMatchCall]_vars

\* ------------------------------------------ SQLiteStore.UpsertPriceRecordBatch
\* A sequence of UpsertPriceRecordBatch calls on one store, one after the
\* other. A table is the sequence of its rows in insertion order; a name is
\* the sequence of its characters.
\* strings.ToLower on one character.
ToLower(c) == CASE c = "A" -> "a" [] c = "B" -> "b" [] OTHER -> c

\* A character outside [^a-z0-9].
IsLowerAlnum(c) == c \in {"a", "b", "1"}

\* reNonAlphanumeric.ReplaceAllString(lower, "-"): each maximal run of
\* characters that are not a lowercase letter or digit becomes one "-".
RECURSIVE ReplaceRuns(_, _, _)
ReplaceRuns(lower, i, out) ==
    IF i > Len(lower) THEN out
    ELSE IF IsLowerAlnum(lower[i])
         THEN ReplaceRuns(lower, i + 1, Append(out, lower[i]))
         ELSE IF i > 1 /\ ~IsLowerAlnum(lower[i - 1])
              THEN ReplaceRuns(lower, i + 1, out)
              ELSE ReplaceRuns(lower, i + 1, Append(out, "-"))

\* strings.Trim(slug, "-"): every leading and every trailing "-" is dropped.
RECURSIVE Trim(_)
Trim(slug) ==
    IF slug = <<>> THEN slug
    ELSE IF Head(slug) = "-" THEN Trim(Tail(slug))
    ELSE IF slug[Len(slug)] = "-" THEN Trim(SubSeq(slug, 1, Len(slug) - 1))
    ELSE slug

slugify(name) ==
    LET lower == [i \in DOMAIN name |-> ToLower(name[i])]
    IN  Trim(ReplaceRuns(lower, 1, <<>>))

\* Table products has id as PRIMARY KEY: whether a row holds this id.
HasProduct(products, id) == \E i \in DOMAIN products : products[i].id = id

\* INSERT INTO products without OR IGNORE, on a table without the key.
InsertPlain(products, id, name) == Append(products, [id |-> id, name |-> name])

\* INSERT OR IGNORE INTO products (id, name, category): the row is added
\* unless a row with this id exists, and then the statement does nothing.
InsertOrIgnore(products, id, name) ==
    IF HasProduct(products, id) THEN products
    ELSE Append(products, [id |-> id, name |-> name])

\* The loop of UpsertPriceRecordBatch from entry i on, inside the
\* transaction: the statements see the rows the transaction has written.
\* Statement number failAt fails (0: none does); each entry runs statements
\* 2i-1 (the product) and 2i (the price record).
RECURSIVE BatchLoop(_, _, _, _, _)
BatchLoop(products, records, entries, i, failAt) ==
    IF i > Len(entries)
    THEN [products |-> products, price_records |-> records, err |-> "none"]
    ELSE LET e  == entries[i]
             id == slugify(e)
         IN  IF failAt = 2 * i - 1
             THEN [products |-> products, price_records |-> records,
                   err |-> "upsert product"]
             ELSE IF failAt = 2 * i
             THEN [products |-> InsertOrIgnore(products, id, e),
                   price_records |-> records,
                   err |-> "insert price record"]
             ELSE BatchLoop(InsertOrIgnore(products, id, e),
                            Append(records, [product_id |-> id]),
                            entries, i + 1, failAt)

\* Where a call may fail: nowhere, at Begin, at Commit, or at statement k.
FailPoints(entries) ==
    {<<"none", 0>>, <<"begin", 0>>, <<"commit", 0>>}
        \cup {<<"exec", k>> : k \in 1..(2 * Len(entries))}

\* UpsertPriceRecordBatch(entries) on tables t: the tables after the call
\* and the error returned. The deferred Rollback leaves the tables as they
\* were when the call returns an error.
UpsertPriceRecordBatch(t, entries, fail) ==
    IF Len(entries) = 0
    THEN [products |-> t.products, price_records |-> t.price_records,
          err |-> "none"]
    ELSE IF fail[1] = "begin"
    THEN [products |-> t.products, price_records |-> t.price_records,
          err |-> "begin transaction"]
    ELSE LET r == BatchLoop(t.products, t.price_records, entries, 1,
                            fail[2])
         IN  IF r.err # "none"
             THEN [products |-> t.products,
                   price_records |-> t.price_records, err |-> r.err]
             ELSE IF fail[1] = "commit"
             THEN [products |-> t.products,
                   price_records |-> t.price_records, err |-> "commit"]
             ELSE r

\* The product names the calls are given: two spellings of slug "ab", two
\* of slug "a-b", and one whose slug is empty.
ProductNames ==
    { <<"A", "B">>, <<" ", "a", "b">>, <<"A", " ", "B">>,
      <<"a", "-", " ", "b">>, <<"-">> }

Batches == SeqsUpTo(ProductNames, MaxBatch)

\* One call of UpsertPriceRecordBatch; db.entered keeps the entries of the
\* calls that returned nil, in order.
UpsertCall ==
    /\ db.calls < MaxCalls
    /\ \E entries \in Batches : \E fail \in FailPoints(entries) :
         LET r == UpsertPriceRecordBatch(db, entries, fail)
         IN  db' = [products      |-> r.products,
                    price_records |-> r.price_records,
                    calls         |-> db.calls + 1,
                    entered       |-> IF r.err = "none"
                                      THEN db.entered \o entries
                                      ELSE db.entered,
                    err           |-> r.err]
    /\ UNCHANGED <<enricherVars, uploadVars, crawl, parse, match, translate, multi, run, ix>>

StoreSpec == Init /\ [][UpsertCall]_vars

\* ------------------------------------------------------- translateCatalan
\* A normalised name is the sequence of its tokens (strings.Fields); a
\* dictionary value is the sequence of the tokens of the replacement, empty
\* for the empty string. The entries of catalanToSpanish, all of them:
DictionaryEntries ==
    {
      <<"llet", <<"leche">>>>, <<"semi", <<"semidesnatada">>>>,
      <<"llact", <<>>>>, <<"lact", <<>>>>, <<"ous", <<"huevos">>>>,
      <<"clara", <<"clara">>>>, <<"pasteu", <<>>>>, <<"iogurt", <<"yogur">>>>,
      <<"grec", <<"griego">>>>, <<"lleuger", <<"ligero">>>>,
      <<"lleugera", <<"ligera">>>>, <<"nata", <<"nata">>>>, <<"batre", <<>>>>,
      <<"mantega", <<"mantequilla">>>>, <<"manteg", <<"mantequilla">>>>,
      <<"llevat", <<"levadura">>>>, <<"fresc", <<"fresco">>>>,
      <<"crema", <<"crema">>>>, <<"pollastre", <<"pollo">>>>,
      <<"pollastr", <<"pollo">>>>, <<"pollatre", <<"pollo">>>>,
      <<"pit", <<"pechuga">>>>, <<"llom", <<"lomo">>>>,
      <<"pernil", <<"jamon">>>>, <<"burger", <<"hamburguesa">>>>,
      <<"bovi", <<"vacuno">>>>, <<"gruixuda", <<"gruesa">>>>,
      <<"cuixa", <<"muslo">>>>, <<"cuixetes", <<"muslitos">>>>,
      <<"croquetes", <<"croquetas">>>>, <<"mandonguilles", <<"albondigas">>>>,
      <<"mig", <<>>>>, <<"rostit", <<"asado">>>>, <<"gall", <<>>>>,
      <<"dindi", <<"pavo">>>>, <<"secret", <<"secreto">>>>,
      <<"engreix", <<>>>>, <<"cert", <<>>>>, <<"bur", <<"hamburguesa">>>>,
      <<"burg", <<"hamburguesa">>>>, <<"espatlla", <<"paleta">>>>,
      <<"garró", <<"jarrete">>>>, <<"garro", <<"jarrete">>>>,
      <<"fetge", <<"higado">>>>, <<"vacum", <<"vacuno">>>>,
      <<"porc", <<"cerdo">>>>, <<"anec", <<"pato">>>>,
      <<"confita", <<"confitado">>>>, <<"cansalada", <<"bacon">>>>,
      <<"viada", <<"ahumado">>>>, <<"embotit", <<"embutido">>>>,
      <<"minidauets", <<"taquitos">>>>, <<"daus", <<"tacos">>>>,
      <<"tall", <<"loncha">>>>, <<"talls", <<>>>>,
      <<"tallat", <<"lonchas">>>>, <<"tallada", <<"cortada">>>>,
      <<"tallades", <<"cortadas">>>>, <<"rodanxes", <<"rodajas">>>>,
      <<"laminat", <<"laminado">>>>, <<"tonyina", <<"atun">>>>,
      <<"salmo", <<"salmon">>>>, <<"fumat", <<"ahumado">>>>,
      <<"verat", <<"caballa">>>>, <<"filet", <<"filetes">>>>,
      <<"musclo", <<"mejillon">>>>, <<"musclos", <<"mejillones">>>>,
      <<"escabetx", <<"escabeche">>>>, <<"paqu", <<>>>>,
      <<"gamba", <<"gamba">>>>, <<"pelada", <<"pelada">>>>,
      <<"crua", <<"cruda">>>>, <<"escopinyes", <<"berberechos">>>>,
      <<"sard", <<"sardina">>>>, <<"sardinetes", <<"sardinillas">>>>,
      <<"sardinilla", <<"sardinilla">>>>, <<"seito", <<"anchoa">>>>,
      <<"noruec", <<"noruego">>>>, <<"pota", <<"pota">>>>,
      <<"migas", <<"migas">>>>, <<"carbasso", <<"calabacin">>>>,
      <<"pebrot", <<"pimiento">>>>, <<"ceba", <<"cebolla">>>>,
      <<"espinaca", <<"espinaca">>>>, <<"espinac", <<"espinaca">>>>,
      <<"esparrec", <<"esparrago">>>>, <<"esparrecs", <<"esparragos">>>>,
      <<"xampinyo", <<"champinon">>>>, <<"brots", <<"brotes">>>>,
      <<"tendres", <<"tiernos">>>>, <<"llima", <<"lima">>>>,
      <<"verd", <<"verde">>>>, <<"mitja", <<"mediano">>>>,
      <<"mitjana", <<"mediana">>>>, <<"patata", <<"patata">>>>,
      <<"patates", <<"patatas">>>>, <<"tub", <<>>>>,
      <<"cogombre", <<"pepino">>>>, <<"cogombres", <<"pepinos">>>>,
      <<"cogombrets", <<"pepinillos">>>>, <<"alberginia", <<"berenjena">>>>,
      <<"alvocat", <<"aguacate">>>>, <<"carxofa", <<"alcachofa">>>>,
      <<"broquil", <<"brocoli">>>>, <<"pastanaga", <<"zanahoria">>>>,
      <<"tomaquet", <<"tomate">>>>, <<"tomàquet", <<"tomate">>>>,
      <<"pebr", <<"pimiento">>>>, <<"pebre", <<"pimienta">>>>,
      <<"vermell", <<"rojo">>>>, <<"vermella", <<"roja">>>>,
      <<"dolc", <<"dulce">>>>, <<"dolca", <<"dulce">>>>, <<"pinyol", <<>>>>,
      <<"pinyols", <<>>>>, <<"sense", <<>>>>, <<"cong", <<"congelado">>>>,
      <<"col", <<"col">>>>, <<"arrissada", <<"rizada">>>>,
      <<"llisa", <<"lisa">>>>, <<"canonges", <<"canonigos">>>>,
      <<"amanida", <<"ensalada">>>>, <<"nova", <<>>>>,
      <<"tendra", <<"tierna">>>>, <<"saltat", <<"salteado">>>>,
      <<"graellada", <<"a", "la", "plancha">>>>, <<"verdura", <<"verdura">>>>,
      <<"verdures", <<"verduras">>>>, <<"bolet", <<"seta">>>>,
      <<"bolets", <<"setas">>>>, <<"shiitake", <<"shiitake">>>>,
      <<"taronja", <<"naranja">>>>, <<"cirera", <<"cereza">>>>,
      <<"platan", <<"platano">>>>, <<"maduixa", <<"fresa">>>>,
      <<"maduixot", <<"fresa">>>>, <<"nabiu", <<"arandano">>>>,
      <<"castana", <<"castana">>>>, <<"castanyes", <<"castanas">>>>,
      <<"melo", <<"melon">>>>, <<"gripau", <<>>>>, <<"llimona", <<"limon">>>>,
      <<"espremuda", <<"exprimida">>>>, <<"poma", <<"manzana">>>>,
      <<"manz", <<"manzana">>>>, <<"cibulet", <<"cebollino">>>>,
      <<"coriandre", <<"cilantro">>>>, <<"all", <<"ajo">>>>,
      <<"alls", <<"ajos">>>>, <<"adobat", <<"aliñado">>>>,
      <<"granulat", <<"granulado">>>>, <<"sec", <<"seco">>>>,
      <<"trossos", <<"trozos">>>>, <<"tros", <<"trozo">>>>,
      <<"plana", <<"plana">>>>, <<"mongeta", <<"judias">>>>,
      <<"pesols", <<"guisantes">>>>, <<"nyora", <<"nora">>>>,
      <<"piquillo", <<"piquillo">>>>, <<"brandi", <<"brandy">>>>,
      <<"cigro", <<"garbanzo">>>>, <<"cuit", <<"cocido">>>>,
      <<"cuita", <<"cocida">>>>, <<"nyoquis", <<"gnocchi">>>>,
      <<"arros", <<"arroz">>>>, <<"arrós", <<"arroz">>>>,
      <<"llentia", <<"lenteja">>>>, <<"mongetes", <<"judias">>>>,
      <<"farina", <<"harina">>>>, <<"blat", <<"trigo">>>>,
      <<"segol", <<"centeno">>>>, <<"civada", <<"avena">>>>,
      <<"flocs", <<"copos">>>>, <<"moro", <<"maiz">>>>,
      <<"crispet", <<"palomitas">>>>, <<"fideu", <<"fideo">>>>,
      <<"corallini", <<"corallini">>>>, <<"pasta", <<"pasta">>>>,
      <<"full", <<>>>>, <<"fullada", <<"hojaldre">>>>,
      <<"integrals", <<"integrales">>>>, <<"snacks", <<"snacks">>>>,
      <<"snack", <<"snack">>>>, <<"formatge", <<"queso">>>>,
      <<"formatges", <<"queso">>>>, <<"provolone", <<"provolone">>>>,
      <<"mescla", <<"mezcla">>>>, <<"ratllat", <<"rallado">>>>,
      <<"anyenc", <<"añejo">>>>, <<"vell", <<"viejo">>>>,
      <<"fort", <<"curado">>>>, <<"blanc", <<"blanco">>>>,
      <<"blanca", <<"blanca">>>>, <<"manchego", <<"manchego">>>>,
      <<"gouda", <<"gouda">>>>, <<"mozzarella", <<"mozzarella">>>>,
      <<"perles", <<"perlas">>>>, <<"rotlle", <<"rulo">>>>,
      <<"cabra", <<"cabra">>>>, <<"curat", <<"curado">>>>,
      <<"xapata", <<"chapata">>>>, <<"torrat", <<"tostado">>>>,
      <<"torrada", <<"tostada">>>>, <<"panses", <<"pasas">>>>,
      <<"vidre", <<>>>>, <<"pages", <<"campo">>>>, <<"pags", <<"campo">>>>,
      <<"galeta", <<"galleta">>>>, <<"maria", <<"maria">>>>,
      <<"panet", <<"panecillo">>>>, <<"llavors", <<"semillas">>>>,
      <<"entrepa", <<"bocadillo">>>>, <<"unitats", <<>>>>,
      <<"hamb", <<"hamburguesa">>>>, <<"rustic", <<"rustico">>>>,
      <<"rustica", <<"rustica">>>>, <<"pitas", <<"pitas">>>>,
      <<"polvoro", <<"polvoron">>>>, <<"mini", <<"mini">>>>,
      <<"pastissets", <<"pastelitos">>>>, <<"barreta", <<"barrita">>>>,
      <<"barr", <<"barrita">>>>, <<"farcida", <<"rellena">>>>,
      <<"farcits", <<"rellenos">>>>, <<"torró", <<"turron">>>>,
      <<"torro", <<"turron">>>>, <<"bombo", <<"bombon">>>>,
      <<"ametllat", <<"almendrado">>>>, <<"xoco", <<"chocolate">>>>,
      <<"xocolata", <<"chocolate">>>>, <<"napo", <<"napolitana">>>>,
      <<"fondre", <<"fundir">>>>, <<"banoffee", <<"banoffee">>>>,
      <<"cheesecake", <<"cheesecake">>>>, <<"festuc", <<"pistacho">>>>,
      <<"avellana", <<"avellana">>>>, <<"cacauet", <<"cacahuete">>>>,
      <<"cacahuete", <<"cacahuete">>>>, <<"desgreixat", <<"desgrasado">>>>,
      <<"caramel", <<"caramel">>>>, <<"salat", <<"salado">>>>,
      <<"cornet", <<"cucurucho">>>>, <<"gelat", <<"helado">>>>,
      <<"orxata", <<"horchata">>>>, <<"mousse", <<"mousse">>>>,
      <<"postre", <<"postre">>>>, <<"pastis", <<"pastel">>>>,
      <<"llaminadures", <<"chuches">>>>, <<"tramussos", <<"chochos">>>>,
      <<"popitos", <<"palomitas">>>>, <<"oliva", <<"aceituna">>>>,
      <<"olives", <<"aceitunas">>>>, <<"oli", <<"aceite">>>>,
      <<"verge", <<"virgen">>>>, <<"extra", <<"extra">>>>,
      <<"arbequina", <<"arbequina">>>>, <<"negra", <<"negra">>>>,
      <<"negre", <<"negro">>>>, <<"estil", <<"estilo">>>>,
      <<"casola", <<"casero">>>>, <<"orenga", <<"oregano">>>>,
      <<"comi", <<"comino">>>>, <<"safra", <<"azafran">>>>,
      <<"bitxo", <<"guindilla">>>>, <<"molt", <<"molido">>>>,
      <<"molta", <<"molida">>>>, <<"anitines", <<"anchoas">>>>,
      <<"maionesa", <<"mayonesa">>>>, <<"hummus", <<"hummus">>>>,
      <<"truita", <<"tortilla">>>>, <<"curri", <<"curry">>>>,
      <<"enceball", <<"cebolleta">>>>, <<"sal", <<"sal">>>>,
      <<"sucre", <<"azucar">>>>, <<"llustre", <<"glas">>>>,
      <<"vinagre", <<"vinagre">>>>, <<"amaniment", <<"aliño">>>>,
      <<"bicarbonat", <<"bicarbonato">>>>, <<"alcohol", <<"alcohol">>>>,
      <<"cervesa", <<"cerveza">>>>, <<"cerv", <<"cerveza">>>>,
      <<"cerves", <<"cerveza">>>>, <<"radler", <<"radler">>>>,
      <<"llauna", <<"lata">>>>, <<"ampolla", <<"botella">>>>,
      <<"ampolleta", <<"botella">>>>, <<"agua", <<"agua">>>>,
      <<"aigua", <<"agua">>>>, <<"gas", <<"gas">>>>, <<"fred", <<"frio">>>>,
      <<"micelar", <<"micelar">>>>, <<"destil", <<"destilada">>>>,
      <<"agudes", <<"con", "gas">>>>, <<"font", <<"fuente">>>>,
      <<"isotonic", <<"isotonica">>>>, <<"isotonica", <<"isotonica">>>>,
      <<"isotònic", <<"isotonica">>>>, <<"energ", <<"energetica">>>>,
      <<"sprite", <<"sprite">>>>, <<"brou", <<"caldo">>>>,
      <<"cafe", <<"cafe">>>>, <<"descafeinat", <<"descafeinado">>>>,
      <<"gra", <<"grano">>>>, <<"nescafe", <<"nescafe">>>>,
      <<"cacau", <<"cacao">>>>, <<"muesli", <<"muesli">>>>,
      <<"fruites", <<"frutas">>>>, <<"crunchy", <<"crunchy">>>>,
      <<"lleixiu", <<"lejia">>>>, <<"netejador", <<"limpiador">>>>,
      <<"neteja", <<"limpia">>>>, <<"netej", <<"limpiador">>>>,
      <<"netejamaquines", <<"limpiahogar">>>>,
      <<"netejaulleres", <<"quitagrasas">>>>,
      <<"detergent", <<"detergente">>>>, <<"det", <<"detergente">>>>,
      <<"rentaplats", <<"lavavajillas">>>>,
      <<"rentavaixelles", <<"lavavajillas">>>>,
      <<"suavitzant", <<"suavizante">>>>,
      <<"desgreixador", <<"desengrasante">>>>,
      <<"desgreix", <<"desengrasante">>>>, <<"marxe", <<>>>>,
      <<"fregasols", <<"friegasuelos">>>>, <<"impulsor", <<"quitamanchas">>>>,
      <<"floral", <<"floral">>>>, <<"marsella", <<"marsella">>>>,
      <<"amoniac", <<"amoniaco">>>>, <<"citric", <<"citrico">>>>,
      <<"desinfectant", <<"desinfectante">>>>, <<"teixits", <<"tejidos">>>>,
      <<"vidres", <<"cristales">>>>, <<"multiusos", <<"multiusos">>>>,
      <<"vitroceram", <<"vitroceramica">>>>, <<"anticalc", <<"antical">>>>,
      <<"forn", <<"horno">>>>, <<"wc", <<"wc">>>>, <<"banys", <<"banos">>>>,
      <<"pistola", <<"pistola">>>>, <<"espra", <<"spray">>>>,
      <<"gel", <<"gel">>>>, <<"escumós", <<"espumoso">>>>,
      <<"escumos", <<"espumoso">>>>, <<"xampu", <<"champu">>>>,
      <<"champu", <<"champu">>>>, <<"conditioner", <<"acondicionador">>>>,
      <<"rep", <<>>>>, <<"nutr", <<>>>>, <<"color", <<"color">>>>,
      <<"intense", <<"intenso">>>>, <<"argan", <<"argan">>>>,
      <<"deo", <<"desodorante">>>>, <<"body", <<"body">>>>,
      <<"aqua", <<"aqua">>>>, <<"limit", <<"limit">>>>,
      <<"limite", <<"limite">>>>, <<"power", <<"power">>>>,
      <<"rexona", <<"rexona">>>>, <<"antitaques", <<"antimanchas">>>>,
      <<"vaselina", <<"vaselina">>>>, <<"hidratant", <<"hidratante">>>>,
      <<"labial", <<"labial">>>>, <<"protect", <<"protector">>>>,
      <<"fps15", <<"fps15">>>>, <<"serum", <<"serum">>>>,
      <<"hialuronic", <<"hialuronico">>>>, <<"vitamina", <<"vitamina">>>>,
      <<"tonic", <<"tonico">>>>, <<"depil", <<"depilatorio">>>>,
      <<"fulles", <<"hojas">>>>, <<"ulls", <<"ojos">>>>,
      <<"perf", <<"perfilador">>>>, <<"water", <<"waterproof">>>>,
      <<"aut", <<>>>>, <<"discs", <<"discos">>>>,
      <<"desmaquill", <<"desmaquillante">>>>, <<"rod", <<>>>>,
      <<"raspall", <<"cepillo">>>>, <<"electric", <<"electrico">>>>,
      <<"rec", <<"recambio">>>>, <<"tampo", <<"tampon">>>>,
      <<"tamp", <<"tampon">>>>, <<"compact", <<"compacto">>>>,
      <<"regular", <<"regular">>>>, <<"salva", <<"salvaslip">>>>,
      <<"salvaungles", <<"quitaesmalte">>>>, <<"ungles", <<"unas">>>>,
      <<"delicat", <<"delicado">>>>, <<"pinca", <<"pinza">>>>,
      <<"obliqua", <<"oblicua">>>>, <<"agulles", <<"agujas">>>>,
      <<"plast", <<"plastico">>>>, <<"punta", <<"punta">>>>,
      <<"tovall", <<"toallita">>>>, <<"tovallons", <<"servilletas">>>>,
      <<"mocador", <<"panuelo">>>>, <<"mocadors", <<"panuelos">>>>,
      <<"capsa", <<"caja">>>>, <<"capes", <<"capas">>>>,
      <<"bebe", <<"bebe">>>>, <<"fres", <<"frescos">>>>,
      <<"film", <<"film">>>>, <<"transparent", <<"transparente">>>>,
      <<"alumini", <<"aluminio">>>>, <<"paper", <<"papel">>>>,
      <<"higienic", <<"higienico">>>>, <<"vegetal", <<"vegetal">>>>,
      <<"motlle", <<"molde">>>>, <<"rodo", <<"redondo">>>>,
      <<"bossa", <<"bolsa">>>>, <<"bosses", <<"bolsas">>>>,
      <<"zip", <<"zip">>>>, <<"basura", <<"basura">>>>,
      <<"compost", <<"compostable">>>>, <<"facil", <<"facil">>>>,
      <<"tanca", <<"cierre">>>>, <<"paperera", <<"papelera">>>>,
      <<"palla", <<"paja">>>>, <<"reutilitzable", <<"reutilizable">>>>,
      <<"encenedor", <<"encendedor">>>>, <<"fusta", <<"madera">>>>,
      <<"grans", <<"grandes">>>>, <<"llumins", <<"cerillas">>>>,
      <<"espelma", <<"vela">>>>, <<"num", <<"numero">>>>,
      <<"carbó", <<"carbon">>>>, <<"carbo", <<"carbon">>>>,
      <<"pal", <<"palo">>>>, <<"antilliscant", <<"antideslizante">>>>,
      <<"sorra", <<"arena">>>>, <<"aglomerant", <<"aglomerante">>>>,
      <<"escombra", <<"escoba">>>>, <<"interiors", <<"interiores">>>>,
      <<"recollidor", <<"recogedor">>>>, <<"manec", <<"mango">>>>,
      <<"rodet", <<"rodillo">>>>, <<"polsim", <<"quitapolvos">>>>,
      <<"adhe", <<"adhesivo">>>>, <<"tiràs", <<"tiras">>>>,
      <<"tiras", <<"tiras">>>>, <<"atrapapols", <<"atrapa", "polvo">>>>,
      <<"camussa", <<"gamuza">>>>, <<"baieta", <<"bayeta">>>>,
      <<"baietes", <<"bayetas">>>>, <<"microf", <<"microfibra">>>>,
      <<"micro", <<"microfibra">>>>, <<"fregall", <<"estropajo">>>>,
      <<"lot", <<"pack">>>>, <<"llar", <<>>>>, <<"doble", <<"doble">>>>,
      <<"maquines", <<"maquinas">>>>, <<"liquid", <<"liquido">>>>,
      <<"liquida", <<"liquida">>>>, <<"recanvi", <<"recambio">>>>,
      <<"love", <<>>>>, <<"insecticida", <<"insecticida">>>>,
      <<"insec", <<"insecticida">>>>, <<"espirals", <<"espirales">>>>,
      <<"mosquits", <<"mosquitos">>>>, <<"repellent", <<"repelente">>>>,
      <<"antihumitat", <<"antihumedad">>>>, <<"joc", <<"pack">>>>,
      <<"gat", <<"gato">>>>, <<"silice", <<"silice">>>>,
      <<"mixtura", <<"mezcla">>>>, <<"can", <<"perro">>>>,
      <<"caderner", <<"canario">>>>, <<"amb", <<>>>>, <<"nat", <<>>>>,
      <<"granel", <<>>>>, <<"fam", <<>>>>, <<"trev", <<>>>>,
      <<"white", <<"white">>>>, <<"ultra", <<"ultra">>>>,
      <<"light", <<"light">>>>, <<"classic", <<"clasico">>>>,
      <<"trico", <<"tricolor">>>>, <<"baby", <<"baby">>>>,
      <<"extrafinatr", <<"extrafino">>>>, <<"net", <<>>>>
    }

catalanToSpanish ==
    [k \in {e[1] : e \in DictionaryEntries} |->
        (CHOOSE e \in DictionaryEntries : e[1] = k)[2]]

\* replacement, found := catalanToSpanish[tok]
Found(tok) == tok \in DOMAIN catalanToSpanish

\* A dictionary in which the value of "llet" is a key of another entry.
ReplacementChained(tok) ==
    IF tok = "llet" THEN <<"nat">> ELSE catalanToSpanish[tok]

Replacement(tok) == catalanToSpanish[tok]

\* The loop of translateCatalan from token i on: a token of the dictionary
\* is replaced, or dropped when the replacement is empty; any other token is
\* kept.
RECURSIVE TranslateLoop(_, _, _)
TranslateLoop(tokens, i, out) ==
    IF i > Len(tokens) THEN out
    ELSE LET tok == tokens[i]
         IN  IF Found(tok)
             THEN IF Replacement(tok) # <<>>
                  THEN TranslateLoop(tokens, i + 1, out \o Replacement(tok))
                  ELSE TranslateLoop(tokens, i + 1, out)
             ELSE TranslateLoop(tokens, i + 1, Append(out, tok))

\* translateCatalan(normalised): strings.Join(out, " ") of the loop's result,
\* read again as tokens.
translateCatalan(tokens) == TranslateLoop(tokens, 1, <<>>)

\* Every token the dictionary knows, as a key or inside a value.
DictionaryTokens ==
    DOMAIN catalanToSpanish
        \cup UNION {Range(catalanToSpanish[k]) : k \in DOMAIN catalanToSpanish}

\* A replaced token, a dropped one, one replaced by three, one that maps to
\* itself, and one the dictionary does not hold.
SampleTokens == {"llet", "net", "graellada", "nata", "hacendado"}

\* The names translateCatalan is given: each token of the dictionary alone,
\* and every name of up to MaxTokens sample tokens.
TranslateInputs ==
    {<<t>> : t \in DictionaryTokens} \cup SeqsUpTo(SampleTokens, MaxTokens)

\* translateCatalan applied to a name, and again to its result.
TranslateCall ==
    /\ ~translate.called
    /\ \E x \in TranslateInputs :
         LET once == translateCatalan(x)
         IN  translate' = [called |-> TRUE, x |-> x, once |-> once,
                           twice |-> translateCatalan(once)]
    /\ UNCHANGED <<enricherVars, uploadVars, crawl, parse, match, db, multi, run, ix>>

TranslateSpec == Init /\ [][TranslateCall]_vars

\* ---------------------------------------------------- Run, product by product
\* Calls of Run on a store of named products, each call with the index its
\* productIndex returned: the worker's pass and the enrich command's, which
\* builds its own index, may overlap.
stopWords ==
    {"de", "del", "la", "el", "los", "las", "un", "una", "en", "con", "sin",
     "y", "a", "al", "o", "para", "por", "e",
     "kg", "g", "ml", "l", "cl", "ud", "uds", "u", "pack", "bot", "lata",
     "dels", "les", "uns", "unes", "amb", "per", "i", "d", "s"}

\* keywords(normalised): the tokens of 3 characters or more that are not
\* stop words, in order.
keywords(tokens) ==
    SelectSeq(tokens, LAMBDA p : Len(p) >= 3 /\ p \notin stopWords)

\* The products of the store, in the order of their names: the identifier
\* and strings.Fields(normalise(p.Name)).
RunProducts ==
    << [ID |-> "llet-entera", Name |-> <<"llet", "entera">>],
       [ID |-> "net-de-oli",  Name |-> <<"net", "de">>],
       [ID |-> "oli",         Name |-> <<"oli">>] >>

\* The indexes productIndex may return: built at different times, or with
\* a subcategory skipped.
RunIndexes ==
    LET leche  == [Thumbnail |-> "leche.jpg",
                   Keywords |-> <<"leche", "entera">>]
        leche2 == [Thumbnail |-> "leche-2.jpg",
                   Keywords |-> <<"leche", "entera">>]
        aceite == [Thumbnail |-> "aceite.jpg",
                   Keywords |-> <<"aceite", "oliva", "virgen">>]
    IN  {<<>>, <<leche>>, <<leche, aceite>>, <<leche2, aceite>>}

\* A call of Run about to call productIndex.
NewPass == [pc |-> "index", index |-> <<>>, results |-> <<>>,
            listed |-> {}, set |-> {}, err |-> "none",
            Total |-> 0, Updated |-> 0, Skipped |-> 0]

\* localKW := keywords(translateCatalan(normalise(p.Name)))
LocalKW(i) == keywords(translateCatalan(RunProducts[i].Name))

\* The store before the calls: each product with an image or without.
RunStart ==
    /\ ~run.started
    /\ \E img \in [DOMAIN RunProducts -> {"", "old.jpg"}] :
         run' = [started |-> TRUE, img |-> img,
                 pass |-> [r \in 1..NumRuns |-> NewPass]]
    /\ UNCHANGED <<enricherVars, uploadVars, crawl, parse, match, db,
                   translate, multi, ix>>

\* index, err := e.productIndex(ctx)
RunIndex(r) ==
    /\ run.started
    /\ run.pass[r].pc = "index"
    /\ \/ run' = [run EXCEPT !.pass[r].pc = "returned",
                             !.pass[r].err = "index"]
       \/ \E index \in RunIndexes :
            run' = [run EXCEPT !.pass[r].pc = "list",
                               !.pass[r].index = index]
    /\ UNCHANGED <<enricherVars, uploadVars, crawl, parse, match, db,
                   translate, multi, ix>>

\* results, err := e.store.GetProductsWithoutImage(); res.Total = len(results)
RunList(r) ==
    /\ run.started
    /\ run.pass[r].pc = "list"
    /\ \/ run' = [run EXCEPT !.pass[r].pc = "returned",
                             !.pass[r].err = "list"]
       \/ LET without == {i \in DOMAIN RunProducts : run.img[i] = ""}
          IN  run' = [run EXCEPT !.pass[r].pc = "loop",
                                 !.pass[r].results = SeqOfSet(without),
                                 !.pass[r].listed = without,
                                 !.pass[r].Total = Cardinality(without)]
    /\ UNCHANGED <<enricherVars, uploadVars, crawl, parse, match, db,
                   translate, multi, ix>>

\* One iteration of Run's loop over results, or `return res, nil` after it.
RunLoop(r) ==
    /\ run.started
    /\ run.pass[r].pc = "loop"
    /\ LET ps == run.pass[r]
       IN  IF ps.results = <<>>
           THEN run' = [run EXCEPT !.pass[r].pc = "returned"]
           ELSE LET i == Head(ps.results)
                    m == bestMatch(LocalKW(i), ps.index)
                IN  IF Len(LocalKW(i)) = 0 \/ ~m.ok
                    THEN run' = [run EXCEPT !.pass[r].results = Tail(@),
                                            !.pass[r].Skipped = @ + 1]
                    ELSE \/ run' = [run EXCEPT !.pass[r].pc = "returned",
                                               !.pass[r].err = "update"]
                         \/ run' = [run EXCEPT
                                      !.img[i] = m.url,
                                      !.pass[r].results = Tail(@),
                                      !.pass[r].set = @ \cup {i},
                                      !.pass[r].Updated = @ + 1]
    /\ UNCHANGED <<enricherVars, uploadVars, crawl, parse, match, db,
                   translate, multi, ix>>

RunNext ==
    \/ RunStart
    \/ \E r \in 1..NumRuns : RunIndex(r)
    \/ \E r \in 1..NumRuns : RunList(r)
    \/ \E r \in 1..NumRuns : RunLoop(r)

RunSpec == Init /\ [][RunNext]_vars

\* ------------------------------- productIndex and the entries of the index
\* Calls of Run, one after the other, each calling productIndex first, with
\* BuildProductIndex followed product by product. ix.built is what
\* BuildProductIndex returned last, ix.got and ix.ret the index and the error
\* productIndex returned last, ix.runErr the error Run returned last, and
\* ix.image the image_url of the store's product.
frameIx == <<enricherVars, uploadVars, crawl, parse, match, db, translate,
             multi, run>>

\* What a subcategory may hold: products with or without a thumbnail, with
\* a display name that has keywords or has none
\* (strings.Fields(normalise(p.DisplayName))).
CatalogueProducts ==
    [Thumbnail : {"", "leche.jpg"},
     DisplayName : {<<"leche", "entera">>, <<"de", "la">>, <<"pan">>}]

\* The tests under which a product becomes an entry of the index.
KeepsProductAnyThumbnail(p, kw) == Len(kw) # 0

KeepsProduct(p, kw) == p.Thumbnail # "" /\ Len(kw) # 0

\* The inner loop of BuildProductIndex over the products of a subcategory.
RECURSIVE AppendEntries(_, _)
AppendEntries(index, products) ==
    IF products = <<>> THEN index
    ELSE LET p  == Head(products)
             kw == keywords(p.DisplayName)
         IN  AppendEntries(IF KeepsProduct(p, kw)
                           THEN Append(index, [Thumbnail |-> p.Thumbnail,
                                               Keywords |-> kw])
                           ELSE index,
                           Tail(products))

\* BuildProductIndex returns (index, err) and productIndex returns in turn:
\* (nil, err) with the cache not touched, or the index, now cached.
IxReturns(index, err) ==
    [ix EXCEPT !.pc = "ret", !.ids = <<>>, !.index = <<>>,
               !.built = [index |-> index, err |-> err], !.ret = err,
               !.got = IF err = "none" THEN index ELSE <<>>,
               !.cached = IF err = "none" THEN index
                          ELSE CacheAfterError(@, index),
               !.fetchedAt = IF err = "none" THEN ix.now ELSE @]

\* Run calls productIndex: the fresh cache is returned, or BuildProductIndex
\* is called.
IxCall ==
    /\ ix.pc = "idle"
    /\ ix.calls < MaxIxCalls
    /\ ix' = IF CacheFresh(ix.cached, ix.fetchedAt, ix.now)
             THEN [ix EXCEPT !.calls = @ + 1, !.pc = "ret", !.ret = "none",
                             !.got = ix.cached]
             ELSE [ix EXCEPT !.calls = @ + 1, !.pc = "tree"]
    /\ UNCHANGED frameIx

\* fetchSubcategoryIDs: an error (always, once cancelled) ends the build.
IxTree ==
    /\ ix.pc = "tree"
    /\ \/ ix' = IxReturns(<<>>, "tree")
       \/ /\ ~ix.cancelled
          /\ \E n \in 0..MaxIxCats :
               ix' = [ix EXCEPT !.pc = "loop", !.ids = [i \in 1..n |-> i],
                                !.index = <<>>]
    /\ UNCHANGED frameIx

\* One iteration of the loop over the subcategories: the select on
\* ctx.Done() returns the index so far and ctx.Err(); else the products are
\* fetched, which may fail, and those kept are appended.
IxFetch ==
    /\ ix.pc = "loop"
    /\ ix.ids # <<>>
    /\ \/ /\ ix.cancelled
          /\ ix' = IxReturns(ix.index, "ctx")
       \/ ix' = [ix EXCEPT !.ids = Tail(@)]
       \/ /\ ~ix.cancelled
          /\ \E products \in SeqsUpTo(CatalogueProducts, MaxProducts) :
               ix' = [ix EXCEPT
                        !.ids = Tail(@),
                        !.index = AppendEntries(@, products),
                        !.sawNoThumbnail =
                            @ \/ \E i \in DOMAIN products :
                                    products[i].Thumbnail = "",
                        !.sawNoKeywords =
                            @ \/ \E i \in DOMAIN products :
                                    keywords(products[i].DisplayName) = <<>>]
    /\ UNCHANGED frameIx

\* The loop is over: return index, nil, and productIndex caches it.
IxDone ==
    /\ ix.pc = "loop"
    /\ ix.ids = <<>>
    /\ ix' = IxReturns(ix.index, "none")
    /\ UNCHANGED frameIx

\* The name of the store's product, normalised.
StoreProductName == <<"leche", "entera">>

\* Run after productIndex has returned: its error is returned at once; else
\* the products without image are listed (which may fail) and the product
\* gets the thumbnail of its best match, unless there is none or the update
\* fails.
IxRun ==
    /\ ix.pc = "ret"
    /\ IF ix.ret # "none"
       THEN ix' = [ix EXCEPT !.pc = "idle", !.runErr = ix.ret]
       ELSE \/ ix' = [ix EXCEPT !.pc = "idle", !.runErr = "list"]
            \/ LET localKW == keywords(translateCatalan(StoreProductName))
                    m       == bestMatch(localKW, ix.got)
                IN  IF ix.image # "" \/ Len(localKW) = 0 \/ ~m.ok
                    THEN ix' = [ix EXCEPT !.pc = "idle", !.runErr = "none"]
                    ELSE \/ ix' = [ix EXCEPT !.pc = "idle",
                                             !.runErr = "update"]
                         \/ ix' = [ix EXCEPT !.pc = "idle",
                                             !.runErr = "none",
                                             !.image = m.url]
    /\ UNCHANGED frameIx

\* The context is cancelled.
IxCancel ==
    /\ ~ix.cancelled
    /\ ix' = [ix EXCEPT !.cancelled = TRUE]
    /\ UNCHANGED frameIx

\* Time passes, half a TTL at a time.
IxAdvance ==
    /\ ix.now + indexTTL \div 2 <= MaxTime
    /\ ix' = [ix EXCEPT !.now = @ + indexTTL \div 2]
    /\ UNCHANGED frameIx

IxNext ==
    \/ IxCall
    \/ IxTree
    \/ IxFetch
    \/ IxDone
    \/ IxRun
    \/ IxCancel
    \/ IxAdvance

IndexSpec == Init /\ [][IxNext]_vars

\* What the Go runtime guarantees the goroutines: each one that can take a
\* step eventually does; a select that keeps finding ctx.Done() ready
\* eventually picks it (the choice among ready cases is uniformly random); a
\* goroutine blocked in Lock eventually gets the mutex (sync.Mutex hands it
\* over to a starving waiter); the ticker keeps ticking.
Fairness ==
    /\ WF_vars(WorkerStep)
    /\ SF_vars(WorkerChoose("done"))
    /\ WF_vars(Tick)
    /\ \A p \in Passes : WF_vars(PassStep(p)) /\ SF_vars(LockAcquire(p))

FairSpec == Init /\ [][Next]_vars /\ Fairness

\* ------------------------------------------------------------------ claims
WorkerPasses == {p \in Passes : pass[p].owner = "worker"}

Started == worker # "notStarted"

\* C1: Schedule never blocks, and the channel never holds more than one
\* signal: a call made while one is buffered changes nothing.
C1_ScheduleNonBlockingCoalesced ==
    /\ ENABLED Schedule
    /\ pending \in 0..1

C1_Witness ==
    /\ pending = 1
    /\ worker = "inRun"
    /\ owed

\* C2: with the worker started, every Schedule call that has returned is
\* followed by the beginning of a pass, unless the context is cancelled.
C2_NoSignalLost == (owed /\ Started) ~> (~owed \/ cancelled)

C2_Witness ==
    /\ owed
    /\ pending = 1
    /\ WorkerPasses # {}

\* C3: the worker never has two passes executing, and at most one more is
\* queued.
C3_OneWorkerPassAtATime ==
    /\ Cardinality(WorkerPasses) <= 1
    /\ Cardinality(WorkerPasses) + pending <= 2

C3_Witness ==
    /\ \E p \in WorkerPasses : pass[p].pc = "fetch"
    /\ pending = 1

\* C7: a pass that fails leaves the worker in its loop: the worker is found
\* exited only after cancellation, and a Schedule call made after a failed
\* pass is still followed by the beginning of another pass.
C7_FailedPassKeepsWorker ==
    /\ [](worker = "exited" => cancelled)
    /\ (workerLastErr /\ owed /\ WorkerPasses = {}) ~> (~owed \/ cancelled)

C7_Witness ==
    /\ workerLastErr
    /\ ~cancelled
    /\ \E p \in WorkerPasses : pass[p].pc = "loop"

\* C8: once the context is cancelled a started worker eventually exits; a
\* crawl parked in its throttle wait when the cancellation fires resumes with
\* the ctx.Done() case, from which it can return at once, tick or no tick,
\* and its only step is to return the error: no further fetch, nothing cached.
C8_CancellationObserved ==
    /\ (cancelled /\ Started) ~> (worker = "exited")
    /\ [][\A p \in Passes :
            (pass[p].pc = "park" /\ ~cancelled /\ cancelled')
                => pass'[p].pc = "wdone"]_vars
    /\ [](\A p \in Passes : pass[p].pc = "wdone" => ENABLED CrawlCancelled(p))
    /\ [][\A p \in Passes :
            (pass[p].pc = "wdone" /\ pass'[p] # pass[p])
                => /\ pass'[p] = FreePass
                   /\ lastBuildErr'
                   /\ cachedIndex' = cachedIndex
                   /\ indexFetchedAt' = indexFetchedAt]_vars

C8_Witness ==
    /\ cancelled
    /\ worker = "inRun"
    /\ \E p \in WorkerPasses : pass[p].pc = "wdone" /\ Len(pass[p].ids) = MaxCats

\* C9 as stated: two consecutive invocations of BuildProductIndex are at
\* least indexTTL apart, whatever the earlier one returned.
C9_Original ==
    [][(\E p \in Passes : pass[p].pc # "cats" /\ pass'[p].pc = "cats")
          => (lastBuildAt = -1 \/ now - lastBuildAt >= indexTTL)]_vars

\* C9, amended: BuildProductIndex is invoked only when the cache is empty or
\* as old as indexTTL, so a non-empty index is never rebuilt within indexTTL
\* of being cached and a pass that finds one performs no catalog request.
C9_NoRebuildWhileFresh ==
    \A p \in Passes :
        InBuild(p) => \/ Len(cachedIndex) = 0
                      \/ lastBuildAt - indexFetchedAt >= indexTTL

C9_Witness ==
    \E p \in Passes :
        /\ InBuild(p)
        /\ Len(cachedIndex) > 0
        /\ lastBuildAt - indexFetchedAt >= indexTTL

\* C10 as stated: at most one BuildProductIndex call is in progress, and a
\* pass that waited for e.mu while a build returned an index does not build.
C10_Original ==
    /\ Cardinality({p \in Passes : InBuild(p)}) <= 1
    /\ \A p \in Passes : (pass[p].waited /\ ~lastBuildErr) => ~InBuild(p)

\* C10, amended: at most one BuildProductIndex call is in progress, and a
\* pass that waited for e.mu builds only when the cache it then finds is
\* empty or as old as indexTTL; otherwise it reuses the cached index.
C10_OneBuildAndReuse ==
    /\ Cardinality({p \in Passes : InBuild(p)}) <= 1
    /\ \A p \in Passes :
          (pass[p].waited /\ InBuild(p))
              => \/ Len(cachedIndex) = 0
                 \/ lastBuildAt - indexFetchedAt >= indexTTL
    /\ \A p \in Passes :
          (pass[p].waited /\ pass[p].pc = "list")
              => Len(pass[p].index) > 0

C10_Witness ==
    \E p \in Passes :
        /\ pass[p].waited
        /\ pass[p].pc = "list"
        /\ pass[p].index = cachedIndex
        /\ lastBuildAt = now


\* ----------------------------------------------------------- upload claims
RecordsOf(u) == {r \in priceRecords : r[1] = u}

RowsOf(u) == {n \in Names : productRows[n] = u}

ImportErrored(u) == req[u].failed # "none"

BatchCommitted(u) ==
    /\ conn # u
    /\ \A i \in 1..Len(req[u].lines) : <<u, i, req[u].lines[i]>> \in priceRecords

\* C4: whenever Import returns an error (extraction, parsing or the
\* persistence batch failed), the result is nil, the step in which it returns
\* the error leaves the store's product rows and price records as they were,
\* the store holds no row and no record of that import, and the store was
\* never called when extraction or parsing failed.
C4_ImportAllOrNothing ==
    /\ [](\A u \in Uploads :
            ImportErrored(u) =>
              /\ req[u].result = -1
              /\ RecordsOf(u) = {}
              /\ RowsOf(u) = {}
              /\ (req[u].failed \in {"extract", "parse"}
                    => req[u].storeCalls = 0))
    /\ [][\A u \in Uploads :
            (~ImportErrored(u) /\ ImportErrored(u)')
              => UNCHANGED <<productRows, priceRecords>>]_vars

\* An import whose batch failed after a statement of it had executed, and an
\* import that failed in extraction.
C4_Witness ==
    /\ \E u \in Uploads : req[u].failed = "persist" /\ req[u].next > 1
    /\ \E u \in Uploads : req[u].failed = "extract"

\* C5 as stated: an upload of a filename that arrives after an upload of the
\* same filename has succeeded never reaches the extractor, commits no price
\* record and does not signal the enricher.
C5_Original ==
    \A u \in Uploads :
        req[u].prior =>
            /\ req[u].extractCalls = 0
            /\ RecordsOf(u) = {}
            /\ req[u].schedCalls = 0

C11_Original ==
    /\ crawl.viaTick
    /\ crawl.minGap = -1 \/ crawl.minGap >= subcategoryDelay

\* C12: a failed per-category fetch does not fail the crawl. A call that
\* returns without error has requested every listed category and its index
\* holds the entries of exactly the categories whose fetch succeeded, in
\* order; among the requests only the category tree's failure is returned as
\* an error (the other error is the cancelled context's).
C12_FetchFailureNonFatal ==
    crawl.pc = "returned" =>
        /\ (crawl.err = "tree") <=> crawl.treeFailed
        /\ crawl.err = "ctx" => crawl.cancelled
        /\ crawl.err = "none" =>
              /\ crawl.ids = <<>>
              /\ crawl.starts = crawl.listed
              /\ Range(crawl.index) = crawl.okIds
              /\ Len(crawl.index) = Cardinality(crawl.okIds)
              /\ \A i, j \in 1..Len(crawl.index) :
                    i < j => crawl.index[i] < crawl.index[j]

\* A crawl of three categories returned without error, its context live,
\* with the second category's fetch failed and the others in the index.
C12_Witness ==
    /\ crawl.pc = "returned" /\ crawl.err = "none" /\ ~crawl.cancelled
    /\ crawl.listed = 3
    /\ crawl.index = <<1, 3>>


\* ----------------------------------------------------------- parser claims
\* The receipt's body is in the layout its column header announces: a
\* multi-line receipt holds no single-line column header.
LayoutAsPrinted ==
    parse.layout = "multi" => ~DetectSingleLine(parse.text)

\* C13 as stated: the lines of the ticket are those Parse returns for the
\* text cut after its first TOTAL line, whatever follows that line.
C13_Original ==
    parse.called =>
        \A i \in 1..Len(parse.text) :
            (parse.text[i].k = "footer"
               /\ \A j \in 1..(i - 1) : parse.text[j].k # "footer")
              => parse.out.Lines = Parse(SubSeq(parse.text, 1, i)).Lines

\* C14: Parse returns an error, and a nil Ticket, exactly when no line of
\* the text holds a valid date; otherwise Date is the first valid date in
\* line order and InvoiceNumber the first invoice number in line order, the
\* empty string when the text has none.
C14_DateMandatory ==
    parse.called =>
        LET dated    == {i \in 1..Len(parse.text) : parse.text[i].date > 0}
            invoiced == {i \in 1..Len(parse.text) : parse.text[i].inv # ""}
            First(S) == CHOOSE i \in S : \A j \in S : i <= j
        IN  /\ parse.out.err <=> dated = {}
            /\ parse.out.isNil <=> parse.out.err
            /\ ~parse.out.err =>
                  /\ parse.out.Date = parse.text[First(dated)].date
                  /\ parse.out.InvoiceNumber =
                        IF invoiced = {} THEN ""
                        ELSE parse.text[First(invoiced)].inv

\* A text whose first line holds digits that are no date, whose later lines
\* hold two different dates, and no invoice number: the first date is taken.
C14_Witness ==
    /\ parse.called /\ Len(parse.text) = 3
    /\ parse.text[1].date = -1 /\ parse.text[2].date = 2
    /\ parse.text[3].date = 1
    /\ \A i \in 1..3 : parse.text[i].inv = ""
    /\ ~parse.out.err /\ parse.out.Date = 2 /\ parse.out.InvoiceNumber = ""

\* C15 as stated: in a receipt of items with quantity tokens of 1 or more,
\* every item yields one TicketLine, and a weight item's has Quantity 1 and
\* the price per kg as UnitPrice, whatever its quantity token.
C15_Original ==
    (parse.called /\ parse.layout # "none" /\ LayoutAsPrinted
       /\ \A i \in 1..Len(parse.items) : parse.items[i].q >= 1)
      => /\ Len(parse.out.Lines) = Len(parse.items)
         /\ \A i \in 1..Len(parse.items) :
              parse.items[i].kind = "weight"
                => parse.out.Lines[i]
                     = TicketLine(parse.items[i].name, parse.items[i].price, 1)

\* C16: in a receipt of unit items with quantity 1 or more (and weight items
\* with quantity token 1), every item yields exactly one TicketLine, in
\* order, and a unit item's holds its quantity and its unit price: the line
\* total of a quantity above 1 is neither a UnitPrice nor a line, and after
\* a quantity of 1 the next item's lines are not taken for a total.
C16_UnitItems ==
    (parse.called /\ parse.layout # "none" /\ LayoutAsPrinted
       /\ \A i \in 1..Len(parse.items) :
            \/ parse.items[i].kind = "unit" /\ parse.items[i].q >= 1
            \/ parse.items[i].kind = "weight" /\ parse.items[i].q = 1)
      => /\ Len(parse.out.Lines) = Len(parse.items)
         /\ \A i \in 1..Len(parse.items) :
              parse.items[i].kind = "unit"
                => parse.out.Lines[i]
                     = TicketLine(parse.items[i].name, parse.items[i].price,
                                  parse.items[i].q)

\* A multi-line receipt of a quantity-2 item followed by a quantity-1 item
\* and a TOTAL line.
C16_Witness ==
    /\ parse.called /\ parse.layout = "multi" /\ Len(parse.items) = 2
    /\ parse.items[1].kind = "unit" /\ parse.items[1].q = 2
    /\ parse.items[2].kind = "unit" /\ parse.items[2].q = 1
    /\ parse.items[1].price # parse.items[2].price
    /\ \E i \in 1..Len(parse.text) : parse.text[i].k = "footer"
    /\ Len(parse.out.Lines) = 2

\* C17 as stated: every TicketLine of a Ticket Parse returns has a Quantity
\* of 1 or more.
C17_Original ==
    parse.called =>
        \A i \in 1..Len(parse.out.Lines) : parse.out.Lines[i].Quantity >= 1


\* ------------------------------------------------------------ match claims
\* C18: with the score of entry i taken as 2 m / (l + k), for l local
\* keywords, k keywords of the entry and m of these found among the local
\* ones, bestMatch reports found exactly when the local list and some entry's
\* list are non-empty and that entry scores at least 1/2; the thumbnail is
\* then that of the earliest entry of maximum score, and "" when not found.
C18_BestMatch ==
    match.called =>
        LET n     == Len(match.index)
            kw(i) == match.index[i].Keywords
            m(i)  == Cardinality({j \in 1..Len(kw(i)) :
                        \E h \in 1..Len(match.localKW) :
                            match.localKW[h] = kw(i)[j]})
            d(i)  == Len(match.localKW) + Len(kw(i))
            scored(i) == Len(match.localKW) > 0 /\ Len(kw(i)) > 0
        IN  /\ match.ok <=> \E i \in 1..n : scored(i) /\ 4 * m(i) >= d(i)
            /\ ~match.ok => match.url = ""
            /\ match.ok =>
                 \E i \in 1..n :
                    /\ scored(i)
                    /\ match.url = match.index[i].Thumbnail
                    /\ \A j \in 1..n :
                          scored(j) => m(j) * d(i) <= m(i) * d(j)
                    /\ \A j \in 1..(i - 1) :
                          scored(j) => m(j) * d(i) < m(i) * d(j)

\* Two entries of different thumbnails reach the same score, the maximum:
\* the first one's thumbnail is returned.
C18_Witness ==
    /\ match.called /\ match.ok /\ Len(match.index) = 2
    /\ match.localKW = <<"leche", "entera">>
    /\ match.index[1].Keywords = <<"leche", "leche">>
    /\ match.index[2].Keywords = <<"entera", "leche">>
    /\ match.index[1].Thumbnail = "pan.jpg"
    /\ match.index[2].Thumbnail = "leche.jpg"
    /\ match.url = "pan.jpg"

\* The product identifiers of the entries of the successful calls so far.
EnteredIds == {slugify(db.entered[i]) : i \in DOMAIN db.entered}

ProductRowsOf(id) == {i \in DOMAIN db.products : db.products[i].id = id}

PriceRecordsOf(id) ==
    {i \in DOMAIN db.price_records : db.price_records[i].product_id = id}

EntriesOf(id) == {i \in DOMAIN db.entered : slugify(db.entered[i]) = id}

\* C19: after any sequence of UpsertPriceRecordBatch calls, table products
\* holds exactly one row for each product identifier (slug of the name) that
\* an entry of a successful call had, and none for any other; and each
\* product has as many price records as the successful calls had entries
\* for it. A repeated name adds a price record and no product row.
C19_OneRowPerProduct ==
    /\ \A id \in EnteredIds : Cardinality(ProductRowsOf(id)) = 1
    /\ \A i \in DOMAIN db.products : db.products[i].id \in EnteredIds
    /\ \A i \in DOMAIN db.price_records :
         db.price_records[i].product_id \in EnteredIds
    /\ \A id \in EnteredIds :
         Cardinality(PriceRecordsOf(id)) = Cardinality(EntriesOf(id))

\* Three successful calls, the same name in two of them and another spelling
\* of the same identifier in the third: one row, three price records.
C19_Witness ==
    /\ db.calls = 3
    /\ db.err = "none"
    /\ Len(db.entered) = 3
    /\ db.entered[1] = db.entered[2]
    /\ db.entered[3] # db.entered[1]
    /\ slugify(db.entered[3]) = slugify(db.entered[1])
    /\ Len(db.products) = 1
    /\ Len(db.price_records) = 3

\* The price records of import u's whole batch.
FullBatch(u) == {<<u, i, req[u].lines[i]>> : i \in 1..Len(req[u].lines)}

\* Import returned a result and a nil error.
ImportSucceeded(u) == req[u].result >= 0

\* C20: whatever the interleaving of the concurrent imports, the store holds
\* of each import either nothing or its whole batch: the whole batch once the
\* import has returned success, nothing if it returned an error; and a step
\* of one import, its failure included, changes neither another import's
\* records in the store nor what the other import has done or returned.
C20_IndependentBatches ==
    /\ [](\A u \in Uploads :
            /\ RecordsOf(u) \in {{}, FullBatch(u)}
            /\ ImportSucceeded(u) => RecordsOf(u) = FullBatch(u)
            /\ ImportErrored(u) => RecordsOf(u) = {})
    /\ [][\A u, v \in Uploads :
            (u # v /\ req[u]' # req[u])
              => /\ req[v]' = req[v]
                 /\ RecordsOf(v)' = RecordsOf(v)]_vars

\* Two finished imports of different files with the same two lines: one
\* committed its two records, the other failed after a statement of its
\* batch, and the store holds the first one's batch alone.
C20_Witness ==
    \E u, v \in Uploads :
        /\ req[u].file # req[v].file
        /\ req[u].pc = "done" /\ req[v].pc = "done"
        /\ req[u].result = 2
        /\ req[v].failed = "persist" /\ req[v].next > 1
        /\ priceRecords = FullBatch(u)
        /\ req[u].lines = req[v].lines

\* C21: translateCatalan applied to its own result returns it unchanged,
\* for every name of normalised tokens; and no token of a dictionary value
\* is a key of the dictionary that maps to anything but itself.
C21_TranslateIdempotent ==
    /\ translate.called => translate.twice = translate.once
    /\ \A k \in DOMAIN catalanToSpanish :
         \A i \in DOMAIN catalanToSpanish[k] :
            LET t == catalanToSpanish[k][i]
            IN  Found(t) => catalanToSpanish[t] = <<t>>

\* A name with a replaced token, a dropped token and a token replaced by
\* several, translated twice.
C21_Witness ==
    /\ translate.called
    /\ translate.x = <<"llet", "net", "graellada">>
    /\ translate.once = <<"leche", "a", "la", "plancha">>
    /\ translate.twice = translate.once

\* C22 as stated: a filename in processed_files is that of an upload whose
\* import has committed, an upload is rejected with Conflict only for a
\* recorded filename, and the filename of every upload answered 201 is
\* recorded as processed.
C22_Original ==
    /\ \A f \in processedFiles :
         \E u \in Uploads :
            req[u].file = f /\ ImportSucceeded(u) /\ BatchCommitted(u)
    /\ \A u \in Uploads : req[u].status = 409 => req[u].file \in processedFiles
    /\ \A u \in Uploads : req[u].status = 201 => req[u].file \in processedFiles

\* The line is not blank, not the TOTAL line, and not the token that
\* parseMultiLineBody expects in this state: in sNameLine a price or a
\* quantity (header residue is the skipped header, not a malformed item), in
\* sPrice anything but a price or a weight, in sWeightPPK anything but a
\* price per kg.
Unexpected(state, l) ==
    /\ l.k \notin {"blank", "footer"}
    /\ \/ state = "sNameLine" /\ l.k \in {"price", "qty"}
       \/ state = "sPrice" /\ l.k \notin {"price", "weight"}
       \/ state = "sWeightPPK" /\ l.k # "ppk"

\* C23 as stated: in the multi-line layout, in each of the states name,
\* price and weight-price-per-kg, a non-empty line that is not the expected
\* token puts the parser back in state qty, emits no TicketLine, and leaves
\* the loop running.
C23_Original ==
    [][Unexpected(multi.st.state, multi'.last)
         => /\ multi'.st.state = "sQty"
            /\ multi'.st.lines = multi.st.lines
            /\ ~multi'.st.done]_vars

\* The Dice coefficient of two sets A and B, as a fraction.
Dice(A, B) == <<2 * Cardinality(A \cap B), Cardinality(A) + Cardinality(B)>>

SameFraction(a, b) == a[1] * b[2] = b[1] * a[2]

\* C24 as stated: the score bestMatch computes for an entry is the Dice
\* coefficient of the two keyword sets; it lies in [0, 1], is 1 exactly when
\* the sets are equal, and is unchanged when local and entry keywords are
\* swapped, repeated tokens or not.
C24_Original ==
    (match.called /\ Len(match.localKW) > 0) =>
        \A i \in DOMAIN match.index :
            LET kw == match.index[i].Keywords
                A  == Range(match.localKW)
                B  == Range(kw)
                s  == Score(match.localKW, kw)
            IN  Len(kw) > 0 =>
                  /\ SameFraction(s, Dice(A, B))
                  /\ 0 <= s[1] /\ s[1] <= s[2]
                  /\ (s[1] = s[2]) <=> (A = B)
                  /\ SameFraction(s, Score(kw, match.localKW))

\* C25 as stated: when a pass returns no error, Total = Updated + Skipped
\* and Total counts the products that lacked an image when the pass listed
\* them; the pass set the image of exactly the listed products for which
\* bestMatch found a match for the translated keywords; each of these holds
\* the matched thumbnail; and a product that had an image when the pass
\* listed was not modified by it.
C25_Original ==
    run.started =>
      \A r \in 1..NumRuns :
        LET ps == run.pass[r]
        IN  (ps.pc = "returned" /\ ps.err = "none") =>
              /\ ps.Total = ps.Updated + ps.Skipped
              /\ ps.Total = Cardinality(ps.listed)
              /\ ps.set \subseteq ps.listed
              /\ \A i \in ps.listed :
                    i \in ps.set <=> bestMatch(LocalKW(i), ps.index).ok
              /\ \A i \in ps.set :
                    run.img[i] = bestMatch(LocalKW(i), ps.index).url

ValidEntry(e) == e.Thumbnail # "" /\ Len(e.Keywords) >= 1

\* C26: every entry of an index BuildProductIndex returns, with or without
\* an error, and every entry of the cached index, has a non-empty thumbnail
\* and at least one keyword; and the cached index changes only when a build
\* returns without error, to the whole index that build returned.
C26_IndexEntriesValid ==
    /\ [](/\ \A i \in DOMAIN ix.built.index : ValidEntry(ix.built.index[i])
          /\ \A i \in DOMAIN ix.cached : ValidEntry(ix.cached[i]))
    /\ [][ix.cached' # ix.cached
            => /\ ix.pc = "loop" /\ ix.ids = <<>>
               /\ ix.built'.err = "none"
               /\ ix.cached' = ix.built'.index
               /\ ix.cached' = ix.index]_vars

\* A cached index of two entries, built from subcategories in which a
\* product had no thumbnail and a product had no keyword.
C26_Witness ==
    /\ Len(ix.cached) = 2
    /\ ix.sawNoThumbnail
    /\ ix.sawNoKeywords
    /\ ix.pc = "idle"

\* C27 as stated: no TicketLine of a Ticket Parse returns has a name equal
\* to a header-residue token, in either layout.
C27_Original ==
    parse.called =>
        \A i \in 1..Len(parse.out.Lines) :
            parse.out.Lines[i].Name \notin ResidueTokens

\* A residue token stands in the name position of the receipt's first item.
ResidueInNamePosition ==
    /\ Len(parse.text) >= 5
    /\ parse.text[5].k = "residue"

\* C27, corrected: in the multi-line layout no TicketLine has a name equal
\* to a header-residue token; a residue token read where the name is
\* expected is skipped, and when the item's name follows the item is emitted
\* under that name. In the single-line layout there is no such rule: a line
\* whose name column is the token yields a TicketLine with that name.
C27_ResidueSkippedInMultiLine ==
    parse.called =>
        /\ ~DetectSingleLine(parse.text) =>
              \A i \in 1..Len(parse.out.Lines) :
                  parse.out.Lines[i].Name \notin ResidueTokens
        /\ (parse.layout = "multi" /\ ResidueInNamePosition) =>
              parse.out.Lines
                = [i \in 1..Len(parse.items) |->
                     TicketLine(parse.items[i].name, parse.items[i].price,
                                parse.items[i].q)]
        /\ (parse.layout = "single" /\ Len(parse.items) >= 1
               /\ parse.items[1].name \in ResidueTokens) =>
              parse.out.Lines[1].Name = parse.items[1].name

\* A multi-line receipt with "Import" between the quantity 2 and the name:
\* one TicketLine, under the item's name.
C27_Witness ==
    /\ parse.called /\ parse.layout = "multi"
    /\ ResidueInNamePosition
    /\ parse.text[5].s = "Import"
    /\ Len(parse.items) = 1 /\ parse.items[1].q = 2
    /\ parse.out.Lines = <<TicketLine(parse.items[1].name,
                                      parse.items[1].price, 2)>>

\* C28 as stated: of the uploads that carry one filename, at most one
\* commits a price-record batch, and every other one that has been answered
\* was answered 409 Conflict.
C28_Original ==
    \A u, v \in Uploads :
        (u # v /\ req[u].file # 0 /\ req[u].file = req[v].file
           /\ ImportSucceeded(u) /\ req[u].result > 0)
          => /\ RecordsOf(v) = {}
             /\ req[v].pc = "done" => req[v].status = 409

\* C29 as stated: a build during which the cancellation has fired leaves the
\* cached index and its fetch timestamp as they were.
C29_Original ==
    [][(ix.pc \in {"tree", "loop"} /\ ix.cancelled)
         => /\ ix'.cached = ix.cached
            /\ ix'.fetchedAt = ix.fetchedAt]_vars

\* C29: BuildProductIndex returns an error only when the category-tree
\* request fails or when the select before a subcategory request takes
\* ctx.Done(). productIndex then returns no index and leaves the cached index
\* and its fetch timestamp as they were, so that what the crawl had collected
\* is cached nowhere; Run returns that error; and from the failure to Run's
\* return the product's image is not changed.
C29_FailedRebuildLeavesCache ==
    /\ [](/\ ix.ret \in {"none", "tree", "ctx"}
          /\ ix.built.err = "tree" => ix.built.index = <<>>)
    /\ [][(ix.pc \in {"tree", "loop"} /\ ix'.pc = "ret" /\ ix'.ret # "none")
            => /\ ix'.cached = ix.cached
               /\ ix'.fetchedAt = ix.fetchedAt
               /\ ix'.got = <<>>
               /\ ix'.built = [index |-> ix.index, err |-> ix'.ret]
               /\ ix'.image = ix.image
               /\ \/ ix.pc = "tree" /\ ix'.ret = "tree"
                  \/ ix.pc = "loop" /\ ix.ids # <<>> /\ ix.cancelled
                       /\ ix'.ret = "ctx"]_vars
    /\ [][(ix.pc = "ret" /\ ix.ret # "none")
            => /\ ix'.cached = ix.cached
               /\ ix'.fetchedAt = ix.fetchedAt
               /\ ix'.image = ix.image
               /\ ix'.pc # "ret" => ix'.pc = "idle" /\ ix'.runErr = ix.ret]_vars

\* A rebuild of an expired cache was cancelled after it had collected an
\* entry that matches the product: Run returned the error, the cache holds
\* the older index under its older timestamp, and the product has no image.
C29_Witness ==
    /\ ix.pc = "idle"
    /\ ix.runErr = "ctx"
    /\ ix.built.err = "ctx"
    /\ bestMatch(keywords(translateCatalan(StoreProductName)), ix.built.index).ok
    /\ ix.cached # <<>>
    /\ ix.cached # ix.built.index
    /\ ix.fetchedAt < ix.now
    /\ ix.image = ""

\* C30 as stated: once the context is cancelled, the worker takes no signal
\* from the channel, calls Run no more, and no step of a pass it runs changes
\* a product's image.
C30_Original ==
    [][cancelled
         => /\ ~(worker = "select" /\ worker' = "recv")
            /\ ~(worker = "recv" /\ worker' = "inRun")
            /\ \A p \in WorkerPasses :
                  pass'[p] # pass[p] => image' = image]_vars

====
